---- MODULE Spec2Model ----
(***************************************************************************)
(* Model of the product-search index lifecycle:                            *)
(*   - CSVProcessor.processCSV / saveSearchIndex  (csv-processor.ts)       *)
(*   - StartupProcessor.ensureSearchIndex         (startup-processor.ts)   *)
(*   - initializeSearchEngine of the search route (app/api/search/route.ts)*)
(*   - SearchEngine                               (search-engine.ts)       *)
(* Every await of the code is a step boundary; the synchronous code        *)
(* between two awaits is one action (Node.js runs it to completion).       *)
(***************************************************************************)
EXTENDS Integers, Sequences, FiniteSets, TLC

\* ------------------------------------------------------------------ bounds
NumIds == 2        \* product ids 1..NumIds
MaxFaults == 2     \* file-system calls that may fail in one behaviour
MaxRuns == 1       \* calls a process makes after its first one
MaxRejects == 1    \* rows a pipeline run may reject
Now == 48          \* Date.now(), in hours
MetaBytes == 400   \* bytes of a serialized index with no product
ProductBytes == 600 \* bytes one product adds to the serialized index
CustomMaxAge == 10 \* a configured maxAgeHours other than the default
MaxLimit == 2      \* largest limit asked of getSearchSuggestions
MaxTextLen == 3     \* characters of a free-text price cell
MaxCollection == 3      \* products in a collection that is searched
MaxPage == 3            \* pages -MaxPage .. MaxPage + 1 are asked for
MaxRows == 3            \* rows the parser delivers in one run
ChunkSize == 2          \* config.chunkSize
MaxProcessorRuns == 2   \* processCSV calls on one CSVProcessor

\* ------------------------------------------------------- program constants
MinIndexBytes == 1000      \* startup-processor.ts: indexSize < 1000
DefaultMaxAgeHours == 24   \* startup-processor.ts: config.maxAgeHours || 24
RecentHours == 1           \* generate-index.ts: indexAge < 60 * 60 * 1000

Procs == {1, 2}
Files == {"canonical", "backup", "old", "temp"}

\* ------------------------------------------------------------ file contents
\* A file is a record: kind "none" (no such file), "object" ({products,
\* metadata}), "array" (bare array of products), "noprods" (JSON without a
\* products array) or "trunc" (bytes that JSON.parse rejects).
NoFile == [kind |-> "none", products |-> <<>>, size |-> 0]

ContentSize(ps) == MetaBytes + ProductBytes * Len(ps)

\* JSON.stringify({products, metadata}, null, 2)
Index(ps) == [kind |-> "object", products |-> ps, size |-> ContentSize(ps)]

\* what a write that stopped part-way leaves of content f
Partial(f) == {[kind |-> "trunc", products |-> <<>>, size |-> s] :
                  s \in {0, IF f.size > 0 THEN f.size - 1 ELSE 0}}

existsSync(f) == f.kind # "none"

ProductSeqs == {[i \in 1..n |-> i] : n \in 0..NumIds}

\* step 3: !tempData.products || !Array.isArray(tempData.products) rejects
ValidTemp(d) == d.kind = "object"

\* JSON.parse of the bytes read succeeds
ParsesAnything(d) == TRUE
Parses(d) == d.kind \in {"object", "array", "noprods"}

\* loadIndex: the bare-array form and the {products: [...]} form load
Loadable(f) == f.kind \in {"object", "array"}
LoadError(f) ==
  IF f.kind = "none" THEN "ENOENT"
  ELSE IF f.kind = "trunc" THEN "SyntaxError"
  ELSE "Invalid search index format"

\* saveSearchIndex: process.env.NODE_ENV === "production" || process.env.VERCEL
SaveNeverProduction(env, vc) == FALSE
SaveIsProduction(env, vc) == env = "production" \/ vc

\* ensureSearchIndex: the same test, made again by the resolver
EnsureNeverProduction(env, vc) == FALSE
EnsureIsProduction(env, vc) == env = "production" \/ vc

\* ----------------------------------------------------------------- state
VARIABLES
  fs,            \* the data directory: Files -> file record
  indexMtime,    \* mtime of the canonical file, in hours
  nodeEnv,       \* process.env.NODE_ENV
  vercel,        \* process.env.VERCEL is set
  csvExists,     \* public/products.csv exists
  csvMtime,      \* its mtime
  indexPath,     \* StartupProcessor: the file config.indexPath names, when
                 \* it is not data/search-index.json
  faults,        \* failures the file system may still produce
  runs,          \* calls still to be made
  proc,          \* per process: position and locals of the call in progress
  fd,            \* per process: where the file it is writing now lives
  searchEngine,  \* route module: let searchEngine
  isInitialized, \* route module: let isInitialized
  lastRead,      \* what the last engine read observed and returned
  modules,       \* the other route modules' engines; resolver calls and
                 \* engine constructions so far, per caller
  row,           \* the row given to transformRow / parsePriceRange
  result,        \* what the function returned
  pipe,          \* a CSVProcessor and the processCSV run it is in
  call,          \* the collection and the arguments of a search(...) call
  answer         \* the SearchResult it returned

vars == <<fs, indexMtime, nodeEnv, vercel, csvExists, csvMtime, indexPath,
          faults, runs,
          proc, fd, searchEngine, isInitialized, lastRead, modules,
          row, result, pipe, call, answer>>

\* locals of a process that is not inside a call
Idle ==
  [pc |-> "idle", entry |-> "none", force |-> FALSE, maxAge |-> 0,
   regen |-> FALSE, statThrew |-> FALSE, ran |-> FALSE,
   saving |-> FALSE, products |-> <<>>,
   errorCount |-> 0,
   indexSize |-> 0, pre |-> NoFile, thrown |-> "none", err |-> "none",
   renamed |-> FALSE, tempCreated |-> FALSE, tempRead |-> NoFile,
   restore |-> "none", cleanup |-> "none", ret |-> <<>>, loaded |-> <<>>,
   query |-> <<>>, limit |-> 0]

NoEngine == [live |-> FALSE, products |-> <<>>, fuse |-> <<>>]
\* the callers of initializeSearchIndex: the search, metadata and suggestions
\* routes and the server action
Callers == {"request", "metadata", "suggest", "action"}
NoModules ==
  [meta |-> NoEngine, suggest |-> NoEngine,
   resolved |-> [c \in Callers |-> 0], built |-> [c \in Callers |-> 0]]
NoRead == [op |-> "none", query |-> <<>>, seenProducts |-> <<>>,
           seenFuse |-> <<>>, items |-> <<>>, suggestions |-> <<>>,
           sortBy |-> "relevance", filtered |-> FALSE]

\* ------------------------------------------------- saveSearchIndex: control
\* The pc of a process names the awaited call it is suspended on.
PersistPcs == {"mkdir", "copy", "write", "writing", "read", "rename",
               "unlink_old", "rename_backup", "cleanup_unlink", "restore_copy"}

\* the callers of processCSV that do not load the index afterwards: the
\* scripts process-csv and generate-index
Builders == {"build", "generate"}

\* processCSV's catch: this.metrics.errorCount++; throw error
Raise(r, e) == [r EXCEPT !.pc = "raised", !.err = e, !.errorCount = @ + 1]

\* the error saveSearchIndex rethrows at the end of its catch block
RethrownRestoreError(thrown, restore) ==
  IF restore = "failed" THEN "restore failed" ELSE thrown
Rethrown(thrown, restore) == thrown

\* catch block, second part: existsSync(backupPath) && !existsSync(indexPath)
RestoreNext(f) ==
  IF existsSync(f.backup) /\ ~existsSync(f.canonical) THEN "restore_copy"
  ELSE "raised"

\* catch block, first part: if (existsSync(tempPath)) await unlink(tempPath)
CatchNextNoCleanup(f) == RestoreNext(f)
CatchNext(f) ==
  IF existsSync(f.temp) THEN "cleanup_unlink" ELSE RestoreNext(f)

\* an error e thrown inside the try block, the files being f
Throw(r, e, f) ==
  LET r1 == [r EXCEPT !.thrown = e]
      nxt == CatchNext(f)
  IN IF nxt = "raised" THEN Raise(r1, Rethrown(e, r1.restore))
     ELSE [r1 EXCEPT !.pc = nxt]

\* the catch block after its cleanup: restore, or rethrow
AfterCleanup(r, f) ==
  LET nxt == RestoreNext(f)
  IN IF nxt = "raised" THEN Raise(r, Rethrown(r.thrown, r.restore))
     ELSE [r EXCEPT !.pc = nxt]

\* end of the try block: statSync(indexPath), then processCSV returns its
\* result; a resolver goes on to loadIndex
Finish(r, f) ==
  IF ~existsSync(f.canonical) THEN Throw(r, "ENOENT", f)
  ELSE [r EXCEPT !.indexSize = f.canonical.size,
                 !.ret = r.products,
                 !.pc = IF r.entry \in Builders THEN "done" ELSE "load_read"]

\* step 5, from its first test on
RotateNextKeepBackup(r, f) == Finish(r, f)
RotateNext(r, f) ==
  IF existsSync(f.backup) /\ existsSync(f.old)
    THEN [r EXCEPT !.pc = "unlink_old"]
  ELSE IF existsSync(f.backup) THEN [r EXCEPT !.pc = "rename_backup"]
  ELSE Finish(r, f)

\* step 5, after the old backup was deleted
RotateNext2(r, f) ==
  IF existsSync(f.backup) THEN [r EXCEPT !.pc = "rename_backup"]
  ELSE Finish(r, f)

\* step 3 on the bytes d read back from the temp file
ValidateNext(r, d, f) ==
  LET r1 == [r EXCEPT !.tempRead = d]
  IN IF ~Parses(d) THEN Throw(r1, "SyntaxError", f)
     ELSE IF ~ValidTemp(d) THEN Throw(r1, "Generated index file is invalid", f)
     ELSE [r1 EXCEPT !.pc = "rename"]

\* the file a process is writing, after the temp path was unlinked / renamed
FdAfterUnlink == [q \in Procs |-> IF fd[q] = "temp" THEN "detached" ELSE fd[q]]
FdAfterRename ==
  [q \in Procs |-> IF fd[q] = "temp" THEN "canonical"
                   ELSE IF fd[q] = "canonical" THEN "detached" ELSE fd[q]]

Env == <<nodeEnv, vercel, csvExists, csvMtime, indexPath>>
Route == <<searchEngine, isInitialized, lastRead>>
Pure == <<row, result, pipe, call, answer>>
Extra == <<modules, Pure>>
\* the resolver's and the routes' state
Rest == <<fs, indexMtime, Env, faults, runs, proc, fd, Route, modules>>
\* everything but the arguments and results of the pure functions
Core == <<Rest, pipe, call, answer>>

Trunc0 == [kind |-> "trunc", products |-> <<>>, size |-> 0]

\* ---------------------------------------------------- processCSV: the stream
\* A build driver (scripts/process-csv.ts) calls processCSV directly.
StartBuild(p) ==
  /\ proc[p].pc = "idle"
  /\ proc' = [proc EXCEPT ![p] =
                [Idle EXCEPT !.pc = "stream", !.entry = "build", !.ran = TRUE]]
  /\ UNCHANGED <<fs, indexMtime, Env, Extra, faults, runs, fd, Route>>

\* for await (const chunk of this.processCSVStream(filePath)): the stream ends
\* (products = the accepted rows, errorCount = the rejected ones) or fails;
\* on success generateMetadata and the synchronous head of saveSearchIndex run
ReadStream(p) ==
  LET r == proc[p] IN
  /\ r.pc = "stream"
  /\ \/ /\ csvExists
        /\ \E ps \in ProductSeqs, rej \in {0, MaxRejects} :
             LET r1 == [r EXCEPT !.products = ps, !.errorCount = rej] IN
             proc' = [proc EXCEPT ![p] =
               IF SaveIsProduction(nodeEnv, vercel)
                 THEN [r1 EXCEPT !.ret = ps,
                        !.pc = IF r.entry \in Builders THEN "done" ELSE "load_read"]
                 ELSE [r1 EXCEPT !.pc = "mkdir", !.saving = TRUE,
                                 !.pre = fs.canonical]]
        /\ UNCHANGED faults
     \/ /\ ~csvExists
        /\ proc' = [proc EXCEPT ![p] = Raise(r, "ENOENT")]
        /\ UNCHANGED faults
     \/ /\ csvExists /\ faults > 0
        /\ faults' = faults - 1
        /\ proc' = [proc EXCEPT ![p] = Raise(r, "EIO")]
  /\ UNCHANGED <<fs, indexMtime, Env, Extra, runs, fd, Route>>

\* --------------------------------------------------- saveSearchIndex: steps
\* await mkdir(dataDir, {recursive: true}); it is outside the try block
Mkdir(p) ==
  LET r == proc[p] IN
  /\ r.pc = "mkdir"
  /\ \/ /\ proc' = [proc EXCEPT ![p] =
               [r EXCEPT !.pc = IF existsSync(fs.canonical) THEN "copy"
                                ELSE "write"]]
        /\ UNCHANGED faults
     \/ /\ faults > 0
        /\ faults' = faults - 1
        /\ proc' = [proc EXCEPT ![p] = Raise(r, "mkdir")]
  /\ UNCHANGED <<fs, indexMtime, Env, Extra, runs, fd, Route>>

\* step 1: await copyFile(indexPath, backupPath)
CopyToBackup(p) ==
  LET r == proc[p] IN
  /\ r.pc = "copy"
  /\ \/ /\ existsSync(fs.canonical)
        /\ fs' = [fs EXCEPT !.backup = fs.canonical]
        /\ proc' = [proc EXCEPT ![p] = [r EXCEPT !.pc = "write"]]
        /\ UNCHANGED faults
     \/ /\ faults > 0
        /\ faults' = faults - 1
        /\ \E b \in {fs.backup} \cup Partial(fs.canonical) :
             /\ fs' = [fs EXCEPT !.backup = b]
             /\ proc' = [proc EXCEPT ![p] = Throw(r, "copyFile", fs')]
  /\ UNCHANGED <<indexMtime, Env, Extra, runs, fd, Route>>

\* step 2, first half: writeFile(tempPath, ...) creates or truncates the file
WriteInPlace == "canonical"
WriteTarget == "temp"
WriteOpen(p) ==
  LET r == proc[p] IN
  /\ r.pc = "write"
  /\ \/ /\ fs' = [fs EXCEPT ![WriteTarget] = Trunc0]
        /\ fd' = [fd EXCEPT ![p] = WriteTarget]
        /\ proc' = [proc EXCEPT ![p] =
                      [r EXCEPT !.pc = "writing", !.tempCreated = TRUE]]
        /\ UNCHANGED faults
     \/ /\ faults > 0
        /\ faults' = faults - 1
        /\ proc' = [proc EXCEPT ![p] = Throw(r, "writeFile", fs)]
        /\ UNCHANGED <<fs, fd>>
  /\ UNCHANGED <<indexMtime, Env, Extra, runs, Route>>

\* step 2, second half: the content reaches the file the descriptor names
WriteData(p) ==
  LET r == proc[p]
      at == fd[p]
      put(c) == IF at \in {"temp", "canonical"} THEN [fs EXCEPT ![at] = c]
                ELSE fs
  IN
  /\ r.pc = "writing"
  /\ fd' = [fd EXCEPT ![p] = "none"]
  /\ \/ /\ fs' = put(Index(r.products))
        /\ proc' = [proc EXCEPT ![p] = [r EXCEPT !.pc = "read"]]
        /\ UNCHANGED faults
     \/ /\ faults > 0
        /\ faults' = faults - 1
        /\ \E c \in Partial(Index(r.products)) :
             /\ fs' = put(c)
             /\ proc' = [proc EXCEPT ![p] = Throw(r, "writeFile", fs')]
  /\ indexMtime' = IF at = "canonical" THEN Now ELSE indexMtime
  /\ UNCHANGED <<Env, Extra, runs, Route>>

\* step 3: JSON.parse(await readFile(tempPath)), then the products test
ReadBack(p) ==
  LET r == proc[p] IN
  /\ r.pc = "read"
  /\ \/ /\ existsSync(fs.temp)
        /\ proc' = [proc EXCEPT ![p] = ValidateNext(r, fs.temp, fs)]
        /\ UNCHANGED faults
     \/ /\ ~existsSync(fs.temp)
        /\ proc' = [proc EXCEPT ![p] = Throw(r, "ENOENT", fs)]
        /\ UNCHANGED faults
     \/ /\ existsSync(fs.temp) /\ faults > 0
        /\ faults' = faults - 1
        /\ proc' = [proc EXCEPT ![p] = Throw(r, "EIO", fs)]
  /\ UNCHANGED <<fs, indexMtime, Env, Extra, runs, fd, Route>>

\* step 4: await rename(tempPath, indexPath)
RenameTemp(p) ==
  LET r == proc[p] IN
  /\ r.pc = "rename"
  /\ \/ /\ existsSync(fs.temp)
        /\ fs' = [fs EXCEPT !.canonical = fs.temp, !.temp = NoFile]
        /\ indexMtime' = Now
        /\ fd' = FdAfterRename
        /\ proc' = [proc EXCEPT ![p] =
                      RotateNext([r EXCEPT !.renamed = TRUE], fs')]
        /\ UNCHANGED faults
     \/ /\ ~existsSync(fs.temp)
        /\ proc' = [proc EXCEPT ![p] = Throw(r, "ENOENT", fs)]
        /\ UNCHANGED <<fs, indexMtime, fd, faults>>
     \/ /\ existsSync(fs.temp) /\ faults > 0
        /\ faults' = faults - 1
        /\ proc' = [proc EXCEPT ![p] = Throw(r, "rename", fs)]
        /\ UNCHANGED <<fs, indexMtime, fd>>
  /\ UNCHANGED <<Env, Extra, runs, Route>>

\* step 5: await unlink(oldBackupPath)
UnlinkOld(p) ==
  LET r == proc[p] IN
  /\ r.pc = "unlink_old"
  /\ \/ /\ existsSync(fs.old)
        /\ fs' = [fs EXCEPT !.old = NoFile]
        /\ proc' = [proc EXCEPT ![p] = RotateNext2(r, fs')]
        /\ UNCHANGED faults
     \/ /\ ~existsSync(fs.old)
        /\ proc' = [proc EXCEPT ![p] = Throw(r, "ENOENT", fs)]
        /\ UNCHANGED <<fs, faults>>
     \/ /\ existsSync(fs.old) /\ faults > 0
        /\ faults' = faults - 1
        /\ proc' = [proc EXCEPT ![p] = Throw(r, "unlink", fs)]
        /\ UNCHANGED fs
  /\ UNCHANGED <<indexMtime, Env, Extra, runs, fd, Route>>

\* step 5: await rename(backupPath, oldBackupPath), then statSync(indexPath)
RenameBackup(p) ==
  LET r == proc[p] IN
  /\ r.pc = "rename_backup"
  /\ \/ /\ existsSync(fs.backup)
        /\ fs' = [fs EXCEPT !.old = fs.backup, !.backup = NoFile]
        /\ proc' = [proc EXCEPT ![p] = Finish(r, fs')]
        /\ UNCHANGED faults
     \/ /\ ~existsSync(fs.backup)
        /\ proc' = [proc EXCEPT ![p] = Throw(r, "ENOENT", fs)]
        /\ UNCHANGED <<fs, faults>>
     \/ /\ existsSync(fs.backup) /\ faults > 0
        /\ faults' = faults - 1
        /\ proc' = [proc EXCEPT ![p] = Throw(r, "rename", fs)]
        /\ UNCHANGED fs
  /\ UNCHANGED <<indexMtime, Env, Extra, runs, fd, Route>>

\* catch block: try { await unlink(tempPath) } catch (cleanupError) { warn }
CleanupTemp(p) ==
  LET r == proc[p] IN
  /\ r.pc = "cleanup_unlink"
  /\ \/ /\ existsSync(fs.temp)
        /\ fs' = [fs EXCEPT !.temp = NoFile]
        /\ fd' = FdAfterUnlink
        /\ proc' = [proc EXCEPT ![p] =
                      AfterCleanup([r EXCEPT !.cleanup = "ok"], fs')]
        /\ UNCHANGED faults
     \/ /\ ~existsSync(fs.temp)
        /\ proc' = [proc EXCEPT ![p] =
                      AfterCleanup([r EXCEPT !.cleanup = "failed"], fs)]
        /\ UNCHANGED <<fs, fd, faults>>
     \/ /\ existsSync(fs.temp) /\ faults > 0
        /\ faults' = faults - 1
        /\ proc' = [proc EXCEPT ![p] =
                      AfterCleanup([r EXCEPT !.cleanup = "failed"], fs)]
        /\ UNCHANGED <<fs, fd>>
  /\ UNCHANGED <<indexMtime, Env, Extra, runs, Route>>

\* catch block: try { await copyFile(backupPath, indexPath) } catch { error },
\* then throw error
RestoreFromBackup(p) ==
  LET r == proc[p] IN
  /\ r.pc = "restore_copy"
  /\ \/ /\ existsSync(fs.backup)
        /\ fs' = [fs EXCEPT !.canonical = fs.backup]
        /\ indexMtime' = Now
        /\ proc' = [proc EXCEPT ![p] =
             Raise([r EXCEPT !.restore = "ok"], Rethrown(r.thrown, "ok"))]
        /\ UNCHANGED faults
     \/ /\ ~existsSync(fs.backup)
        /\ proc' = [proc EXCEPT ![p] =
             Raise([r EXCEPT !.restore = "failed"],
                   Rethrown(r.thrown, "failed"))]
        /\ UNCHANGED <<fs, indexMtime, faults>>
     \/ /\ existsSync(fs.backup) /\ faults > 0
        /\ faults' = faults - 1
        /\ \E c \in {fs.canonical} \cup Partial(fs.backup) :
             /\ fs' = [fs EXCEPT !.canonical = c]
             /\ indexMtime' = IF c = fs.canonical THEN indexMtime ELSE Now
        /\ proc' = [proc EXCEPT ![p] =
             Raise([r EXCEPT !.restore = "failed"],
                   Rethrown(r.thrown, "failed"))]
  /\ UNCHANGED <<Env, Extra, runs, fd, Route>>

\* the process is killed while suspended inside saveSearchIndex
Crash(p) ==
  /\ proc[p].pc \in PersistPcs
  /\ proc' = [proc EXCEPT ![p] = [@ EXCEPT !.pc = "crashed"]]
  /\ fd' = [fd EXCEPT ![p] = "none"]
  /\ UNCHANGED <<fs, indexMtime, Env, Extra, faults, runs, Route>>

\* the caller has its answer (or the process was restarted): next call
Reset(p) ==
  /\ proc[p].pc \in {"done", "raised", "crashed"}
  /\ runs > 0
  /\ runs' = runs - 1
  /\ proc' = [proc EXCEPT ![p] = Idle]
  /\ UNCHANGED <<fs, indexMtime, Env, Extra, faults, fd, Route>>

\* ------------------------------------------------- scripts/generate-index
\* main(), up to its first await: the CSV check, the skip decision, and in
\* the skip branch the reading of the existing index (a file that does not
\* parse makes main start over with --force)
SkipGeneration(force, idx, idxMt, csvMt) ==
  /\ ~force /\ existsSync(idx)
  /\ Now - idxMt < RecentHours
  /\ idxMt > csvMt
GenerateStart(p) ==
  /\ proc[p].pc = "idle"
  /\ \E force \in BOOLEAN :
       LET r == [Idle EXCEPT !.entry = "generate", !.force = force] IN
       proc' = [proc EXCEPT ![p] =
         IF ~csvExists THEN [r EXCEPT !.pc = "raised", !.err = "no csv"]
         ELSE IF SkipGeneration(force, fs.canonical, indexMtime, csvMtime)
                 /\ fs.canonical.kind # "trunc"
           THEN [r EXCEPT !.pc = "done"]
         ELSE [r EXCEPT !.pc = "stream", !.ran = TRUE]]
  /\ UNCHANGED <<fs, indexMtime, Env, Extra, faults, runs, fd, Route>>

\* processCSV threw: the fallback child (scripts/process-csv-hybrid.js, not
\* part of the sources) exits with 0, having written an index or not, or
\* fails, and the build with it
GenerateFallback(p) ==
  LET r == proc[p] IN
  /\ r.entry = "generate" /\ r.pc = "raised"
  /\ r.err \notin {"no csv", "fallback failed"}
  /\ \/ /\ proc' = [proc EXCEPT ![p] = [r EXCEPT !.err = "fallback failed"]]
        /\ UNCHANGED <<fs, indexMtime>>
     \/ /\ proc' = [proc EXCEPT ![p] = [r EXCEPT !.pc = "done",
                                                !.err = "fallback"]]
        /\ \/ UNCHANGED <<fs, indexMtime>>
           \/ \E ps \in ProductSeqs :
                /\ fs' = [fs EXCEPT !.canonical = Index(ps)]
                /\ indexMtime' = Now
  /\ UNCHANGED <<Env, Extra, faults, runs, fd, Route>>

\* ------------------------------------------------------- StartupProcessor
\* shouldRegenerateIndex(): idx is the file at indexPath, statThrows says
\* that statSync raised
ShouldRegenerateIgnoreCsv(csvEx, csvMt, idx, idxMt, maxAge, statThrows) ==
  \/ ~existsSync(idx)
  \/ statThrows
  \/ csvMt > idxMt
  \/ Now - idxMt > maxAge
  \/ idx.size < MinIndexBytes
ShouldRegenerateIndex(csvEx, csvMt, idx, idxMt, maxAge, statThrows) ==
  IF ~csvEx THEN FALSE
  ELSE IF ~existsSync(idx) THEN TRUE
  ELSE IF statThrows THEN TRUE
  ELSE IF csvMt > idxMt THEN TRUE
  ELSE IF Now - idxMt > maxAge THEN TRUE
  ELSE IF idx.size < MinIndexBytes THEN TRUE
  ELSE FALSE

\* constructor: this.indexPath = config.indexPath || <cwd>/data/search-index.json
DefaultIndexPath == [custom |-> FALSE, file |-> NoFile, mtime |-> 0]
\* the file at this.indexPath and its mtime
IndexFile == IF indexPath.custom THEN indexPath.file ELSE fs.canonical
IndexFileMtime == IF indexPath.custom THEN indexPath.mtime ELSE indexMtime

\* constructor: this.maxAgeHours = config.maxAgeHours || 24 (0 = not given)
MaxAgeOf(cfg) == IF cfg = 0 THEN DefaultMaxAgeHours ELSE cfg

\* ensureSearchIndex(forceRegenerate) up to its first await
EnsureStart(r, force, cfg, statThrows) ==
  LET r1 == [r EXCEPT !.force = force, !.maxAge = MaxAgeOf(cfg),
                      !.statThrew = statThrows] IN
  IF EnsureIsProduction(nodeEnv, vercel) THEN [r1 EXCEPT !.pc = "load_read"]
  ELSE IF force \/ ShouldRegenerateIndex(csvExists, csvMtime, IndexFile,
                     IndexFileMtime, MaxAgeOf(cfg), statThrows)
    THEN [r1 EXCEPT !.regen = TRUE, !.ran = TRUE, !.pc = "stream"]
  ELSE [r1 EXCEPT !.pc = "load_read"]

\* a process-start driver calls ensureSearchIndex on a StartupProcessor
StartResolve(p) ==
  /\ proc[p].pc = "idle"
  /\ \E force \in BOOLEAN, cfg \in {0, CustomMaxAge} :
       \/ /\ proc' = [proc EXCEPT ![p] =
               EnsureStart([Idle EXCEPT !.entry = "resolve"], force, cfg, FALSE)]
          /\ UNCHANGED faults
       \/ /\ faults > 0 /\ csvExists /\ existsSync(IndexFile)
          /\ faults' = faults - 1
          /\ proc' = [proc EXCEPT ![p] =
               EnsureStart([Idle EXCEPT !.entry = "resolve"], force, cfg, TRUE)]
  /\ UNCHANGED <<fs, indexMtime, Env, Extra, runs, fd, Route>>

\* ------------------------------------------------------------ SearchEngine
Chars == {"A", "a", "p", "S", "x", " "}
LowerChar(c) ==
  IF c = "A" THEN "a" ELSE IF c = "S" THEN "s" ELSE IF c = "P" THEN "p" ELSE c
toLowerCase(s) == [i \in 1..Len(s) |-> LowerChar(s[i])]
includes(s, q) ==
  \E i \in 0..(Len(s) - Len(q)) : SubSeq(s, i + 1, i + Len(q)) = q
\* !query.trim()
IsEmpty(q) == q = <<>>
IsBlank(q) == \A i \in 1..Len(q) : q[i] = " "

EngineIds == 1..(NumIds + 1)
TitleOf(id) == IF id = 1 THEN <<"A", "p">>
               ELSE IF id = 2 THEN <<"a", "p", "x">>
               ELSE IF id = 5 THEN <<"S", " ", " ", "x">> ELSE <<"S", "x">>
VendorOf(id) == IF id = 1 THEN <<"A", "p">> ELSE <<"S", "a">>
TypeOf(id) == IF id = 3 THEN <<"p", "a", "x">> ELSE <<"a", "p", "x">>
Queries == {<<>>, <<" ", " ">>, <<"a">>, <<"a", "p">>, <<"S", "a">>}
Collections ==
  {<<>>} \cup {<<a>> : a \in EngineIds}
         \cup {<<a, b>> : <<a, b>> \in {x \in EngineIds \X EngineIds : x[1] # x[2]}}

\* new Fuse(this.products, options): the structure holds the documents it
\* was built over
initializeFuse(ps) == ps

\* constructor(products)
NewEngine(ps) == [live |-> TRUE, products |-> ps, fuse |-> initializeFuse(ps)]

\* updateProducts(products): this.products = products; this.initializeFuse()
updateProductsKeepFuse(e, ps) == [e EXCEPT !.products = ps]
updateProducts(e, ps) ==
  [e EXCEPT !.products = ps, !.fuse = initializeFuse(ps)]

\* this.fuse.search(query): the documents of the structure that match, the
\* scoring of Fuse.js reduced to containment in title, vendor or type
FuseMatch(id, q) ==
  \/ includes(toLowerCase(TitleOf(id)), toLowerCase(q))
  \/ includes(toLowerCase(VendorOf(id)), toLowerCase(q))
  \/ includes(toLowerCase(TypeOf(id)), toLowerCase(q))
FuseSearch(docs, q) == SelectSeq(docs, LAMBDA id : FuseMatch(id, q))

\* Array.prototype.slice(start, end): a negative index counts from the end
SliceIndex(k, len) ==
  IF k < 0 THEN (IF len + k < 0 THEN 0 ELSE len + k)
  ELSE IF k > len THEN len ELSE k
slice(s, from, to) ==
  LET lo == SliceIndex(from, Len(s))
      hi == SliceIndex(to, Len(s))
  IN IF hi <= lo THEN <<>> ELSE SubSeq(s, lo + 1, hi)

\* search(query) with the defaults: no filter, page 1, limit 20, relevance
DefaultLimit == 20
search(e, q) ==
  LET results == IF IsBlank(q) THEN e.products ELSE FuseSearch(e.fuse, q)
  IN slice(results, 0, DefaultLimit)

\* Set insertion order: append the members of s that acc does not hold yet
AddAllKeep(acc, s) == acc \o s
RECURSIVE AddAll(_, _)
AddAll(acc, s) ==
  IF s = <<>> THEN acc
  ELSE AddAll(IF \E i \in 1..Len(acc) : acc[i] = Head(s) THEN acc
              ELSE Append(acc, Head(s)), Tail(s))

\* this.products.map((product) => product.title) and the like
Titles(ps) == [i \in 1..Len(ps) |-> TitleOf(ps[i])]
VendorsOf(ps) == [i \in 1..Len(ps) |-> VendorOf(ps[i])]
Types(ps) == [i \in 1..Len(ps) |-> TypeOf(ps[i])]

\* getSearchSuggestions(query, limit)
getSearchSuggestions(e, q, limit) ==
  IF IsBlank(q) \/ Len(q) < 2 THEN <<>>
  ELSE LET hit(v) == includes(toLowerCase(v), toLowerCase(q))
           titles == SelectSeq(Titles(e.products), hit)
           vendors == SelectSeq(VendorsOf(e.products), hit)
           types == SelectSeq(Types(e.products), hit)
       IN slice(AddAll(AddAll(AddAll(<<>>, titles), vendors), types), 0, limit)

\* Array.prototype.sort() with no comparator: by UTF-16 code units
CodeUnit(c) ==
  CASE c = " " -> 32 [] c = "A" -> 65 [] c = "S" -> 83 [] c = "a" -> 97
    [] c = "p" -> 112 [] c = "s" -> 115 [] OTHER -> 120
RECURSIVE StrLess(_, _)
StrLess(a, b) ==
  IF a = <<>> THEN b # <<>>
  ELSE IF b = <<>> THEN FALSE
  ELSE IF Head(a) = Head(b) THEN StrLess(Tail(a), Tail(b))
  ELSE CodeUnit(Head(a)) < CodeUnit(Head(b))
RECURSIVE sort(_)
sort(s) ==
  IF s = <<>> THEN <<>>
  ELSE LET rest == sort(Tail(s))
           k == Cardinality({i \in 1..Len(rest) : StrLess(rest[i], Head(s))})
       IN SubSeq(rest, 1, k) \o <<Head(s)>> \o SubSeq(rest, k + 1, Len(rest))

\* getUniqueVendors(): the distinct non-blank vendors, sorted
getUniqueVendors(e) ==
  sort(AddAll(<<>>, SelectSeq(VendorsOf(e.products),
                              LAMBDA v : ~IsBlank(v))))

\* what a read leaves behind for the observer
ReadOf(op, q, e, items, sugg) ==
  [op |-> op, query |-> q, seenProducts |-> e.products, seenFuse |-> e.fuse,
   items |-> items, suggestions |-> sugg, sortBy |-> "relevance",
   filtered |-> FALSE]

\* ------------------------------------------------ loadIndex and the callers
\* the error ensureSearchIndex lets out when loadIndex failed with e
LoadFailure(e) ==
  IF EnsureIsProduction(nodeEnv, vercel) THEN "Search index not found"
  ELSE e

\* a module-level engine is there to be reused
NeverCached(e) == FALSE
Cached(e) == e.live

\* one more call of initializeSearchIndex / of new SearchEngine by caller c
Resolved(m, c) == [m EXCEPT !.resolved[c] = @ + 1]
Built(m, c) == [m EXCEPT !.built[c] = @ + 1]

\* what the caller does with the loaded products: new SearchEngine(products),
\* kept in the module (the three routes) or local (the server action), and
\* the answer of the request
AfterLoad(r, ps) ==
  LET e == NewEngine(ps) IN
  CASE r.entry = "request" ->
         /\ searchEngine' = e /\ isInitialized' = TRUE
         /\ modules' = Built(modules, "request")
         /\ lastRead' = ReadOf("search", <<>>, e, search(e, <<>>), <<>>)
    [] r.entry = "metadata" ->
         /\ modules' = [Built(modules, "metadata") EXCEPT !.meta = e]
         /\ lastRead' = ReadOf("vendors", <<>>, e, <<>>, getUniqueVendors(e))
         /\ UNCHANGED <<searchEngine, isInitialized>>
    [] r.entry = "suggest" ->
         /\ modules' = [Built(modules, "suggest") EXCEPT !.suggest = e]
         /\ lastRead' = ReadOf("suggest", r.query, e, <<>>,
                               getSearchSuggestions(e, r.query, r.limit))
         /\ UNCHANGED <<searchEngine, isInitialized>>
    [] r.entry = "action" ->
         /\ modules' = Built(modules, "action")
         /\ lastRead' = ReadOf("vendors", <<>>, e, <<>>, getUniqueVendors(e))
         /\ UNCHANGED <<searchEngine, isInitialized>>
    [] OTHER -> UNCHANGED <<Route, modules>>

\* loadIndex(): await readFile(indexPath), JSON.parse, the two accepted
\* forms; a request then builds the engine and answers
LoadIndex(p) ==
  LET r == proc[p]
      f == IndexFile
  IN
  /\ r.pc = "load_read"
  /\ \/ /\ Loadable(f)
        /\ proc' = [proc EXCEPT ![p] =
                      [r EXCEPT !.loaded = f.products, !.pc = "done"]]
        /\ AfterLoad(r, f.products)
        /\ UNCHANGED faults
     \/ /\ ~Loadable(f)
        /\ proc' = [proc EXCEPT ![p] =
             [r EXCEPT !.pc = "raised", !.err = LoadFailure(LoadError(f))]]
        /\ UNCHANGED <<faults, Route, modules>>
     \/ /\ existsSync(f) /\ faults > 0
        /\ faults' = faults - 1
        /\ proc' = [proc EXCEPT ![p] =
             [r EXCEPT !.pc = "raised", !.err = LoadFailure("EIO")]]
        /\ UNCHANGED <<Route, modules>>
  /\ UNCHANGED <<fs, indexMtime, Env, Pure, runs, fd>>

\* GET /api/search: initializeSearchEngine() up to its first await, or, with
\* the engine cached, the whole request
Request(p) ==
  /\ proc[p].pc = "idle"
  /\ IF isInitialized /\ searchEngine.live
       THEN /\ \E q \in Queries :
                 lastRead' = ReadOf("search", q, searchEngine,
                                    search(searchEngine, q), <<>>)
            /\ proc' = [proc EXCEPT ![p] =
                          [Idle EXCEPT !.entry = "request", !.pc = "done"]]
            /\ UNCHANGED modules
       ELSE /\ proc' = [proc EXCEPT ![p] =
                  EnsureStart([Idle EXCEPT !.entry = "request"], FALSE, 0, FALSE)]
            /\ modules' = Resolved(modules, "request")
            /\ UNCHANGED lastRead
  /\ UNCHANGED <<fs, indexMtime, Env, Pure, faults, runs, fd, searchEngine,
                 isInitialized>>

\* GET of the metadata route: its own initializeSearchEngine, then the
\* aggregates
MetadataRequest(p) ==
  /\ proc[p].pc = "idle"
  /\ IF Cached(modules.meta)
       THEN /\ lastRead' = ReadOf("vendors", <<>>, modules.meta, <<>>,
                                  getUniqueVendors(modules.meta))
            /\ proc' = [proc EXCEPT ![p] =
                          [Idle EXCEPT !.entry = "metadata", !.pc = "done"]]
            /\ UNCHANGED modules
       ELSE /\ proc' = [proc EXCEPT ![p] =
                  EnsureStart([Idle EXCEPT !.entry = "metadata"], FALSE, 0,
                              FALSE)]
            /\ modules' = Resolved(modules, "metadata")
            /\ UNCHANGED lastRead
  /\ UNCHANGED <<fs, indexMtime, Env, Pure, faults, runs, fd, searchEngine,
                 isInitialized>>

\* GET of the suggestions route: a blank query is answered at once, the
\* others through getSearchEngine
SuggestRequest(p) ==
  /\ proc[p].pc = "idle"
  /\ \E q \in Queries, limit \in 1..MaxLimit :
       LET r == [Idle EXCEPT !.entry = "suggest", !.query = q, !.limit = limit]
       IN
       IF IsBlank(q)
         THEN /\ lastRead' = [NoRead EXCEPT !.op = "suggest", !.query = q]
              /\ proc' = [proc EXCEPT ![p] = [r EXCEPT !.pc = "done"]]
              /\ UNCHANGED modules
       ELSE IF Cached(modules.suggest)
         THEN /\ lastRead' =
                   ReadOf("suggest", q, modules.suggest, <<>>,
                          getSearchSuggestions(modules.suggest, q, limit))
              /\ proc' = [proc EXCEPT ![p] = [r EXCEPT !.pc = "done"]]
              /\ UNCHANGED modules
       ELSE /\ proc' = [proc EXCEPT ![p] = EnsureStart(r, FALSE, 0, FALSE)]
            /\ modules' = Resolved(modules, "suggest")
            /\ UNCHANGED lastRead
  /\ UNCHANGED <<fs, indexMtime, Env, Pure, faults, runs, fd, searchEngine,
                 isInitialized>>

\* the server action getSearchMetadata(): initializeSearchIndex and a new
\* engine on every call
ActionCall(p) ==
  /\ proc[p].pc = "idle"
  /\ proc' = [proc EXCEPT ![p] =
                EnsureStart([Idle EXCEPT !.entry = "action"], FALSE, 0, FALSE)]
  /\ modules' = Resolved(modules, "action")
  /\ UNCHANGED <<fs, indexMtime, Env, Pure, faults, runs, fd, Route>>

\* ------------------------------------------------- SearchEngine operations
UpdateProducts ==
  /\ searchEngine.live
  /\ \E ps \in Collections : searchEngine' = updateProducts(searchEngine, ps)
  /\ UNCHANGED <<fs, indexMtime, Env, Extra, faults, runs, proc, fd, isInitialized,
                 lastRead>>

Search ==
  /\ searchEngine.live
  /\ \E q \in Queries :
       lastRead' = ReadOf("search", q, searchEngine, search(searchEngine, q),
                          <<>>)
  /\ UNCHANGED <<fs, indexMtime, Env, Extra, faults, runs, proc, fd, searchEngine,
                 isInitialized>>

Suggest ==
  /\ searchEngine.live
  /\ \E q \in Queries, limit \in 1..MaxLimit :
       lastRead' = ReadOf("suggest", q, searchEngine, <<>>,
                          getSearchSuggestions(searchEngine, q, limit))
  /\ UNCHANGED <<fs, indexMtime, Env, Extra, faults, runs, proc, fd, searchEngine,
                 isInitialized>>

Vendors ==
  /\ searchEngine.live
  /\ lastRead' = ReadOf("vendors", <<>>, searchEngine, <<>>,
                        getUniqueVendors(searchEngine))
  /\ UNCHANGED <<fs, indexMtime, Env, Extra, faults, runs, proc, fd, searchEngine,
                 isInitialized>>

\* ------------------------------------- search: filters, sorting, pagination
\* The products searched: price is optional (HasPrice), priceRange always
\* there, totalInventory optional (0 when absent).
CatalogIds == {1, 2, 3, 4, 5}
HasPrice(id) == id \in {4, 5}
PriceOf(id) == IF id = 4 THEN 2 ELSE 0
RangeOf(id) ==
  CASE id = 2 -> [min |-> 0, max |-> 3]
    [] id = 3 -> [min |-> 1, max |-> 2]
    [] id = 5 -> [min |-> 1, max |-> 3]
    [] OTHER -> [min |-> 0, max |-> 0]
InventoryOf(id) == IF id \in {2, 3} THEN 5 ELSE IF id = 4 THEN 1 ELSE 0
HasOutOfStockVariants(id) == id = 3

\* an optional argument: undefined, or a value
Unset(d) == [has |-> FALSE, v |-> d]
Some(v) == [has |-> TRUE, v |-> v]
NoString == Unset(<<>>)
NoNumber == Unset(0)
NoFlag == Unset(FALSE)
NoFilters == [vendor |-> NoString, productType |-> NoString,
              minPrice |-> NoNumber, maxPrice |-> NoNumber, inStock |-> NoFlag]

\* product.price || bound: the single price unless it is absent or 0
PriceOr(id, bound) ==
  IF HasPrice(id) /\ PriceOf(id) # 0 THEN PriceOf(id) ELSE bound

\* the stock test of the inStock filter
InStockInventoryOnly(id) == InventoryOf(id) > 0
InStock(id) == InventoryOf(id) > 0 /\ ~HasOutOfStockVariants(id)

\* applyFilters(products, filters): one filter after the other
applyFilters(ps, f) ==
  LET byVendor ==
        IF f.vendor.has /\ f.vendor.v # <<>>
          THEN SelectSeq(ps, LAMBDA id :
                 includes(toLowerCase(VendorOf(id)), toLowerCase(f.vendor.v)))
          ELSE ps
      byType ==
        IF f.productType.has /\ f.productType.v # <<>>
          THEN SelectSeq(byVendor, LAMBDA id :
                 includes(toLowerCase(TypeOf(id)),
                          toLowerCase(f.productType.v)))
          ELSE byVendor
      byMin ==
        IF f.minPrice.has
          THEN SelectSeq(byType, LAMBDA id :
                 PriceOr(id, RangeOf(id).max) >= f.minPrice.v)
          ELSE byType
      byMax ==
        IF f.maxPrice.has
          THEN SelectSeq(byMin, LAMBDA id :
                 PriceOr(id, RangeOf(id).min) <= f.maxPrice.v)
          ELSE byMin
  IN IF f.inStock.has /\ f.inStock.v
       THEN SelectSeq(byMax, LAMBDA id : InStock(id))
       ELSE byMax

\* the comparators of price-asc and price-desc
ComparePrice(a, b, sortBy) ==
  LET priceA == PriceOr(a, IF sortBy = "price-asc" THEN RangeOf(a).min
                           ELSE RangeOf(a).max)
      priceB == PriceOr(b, IF sortBy = "price-asc" THEN RangeOf(b).min
                           ELSE RangeOf(b).max)
  IN IF priceA = 0 /\ priceB = 0 THEN 0
     ELSE IF priceA = 0 THEN 1
     ELSE IF priceB = 0 THEN 0 - 1
     ELSE IF sortBy = "price-asc" THEN priceA - priceB
     ELSE priceB - priceA

\* sorted.sort(compare): stable
RECURSIVE sortByPrice(_, _)
sortByPrice(s, sortBy) ==
  IF s = <<>> THEN <<>>
  ELSE LET rest == sortByPrice(Tail(s), sortBy)
           k == Cardinality({i \in 1..Len(rest) :
                               ComparePrice(rest[i], Head(s), sortBy) < 0})
       IN SubSeq(rest, 1, k) \o <<Head(s)>> \o SubSeq(rest, k + 1, Len(rest))

\* applySorting(products, sortBy)
applySorting(ps, sortBy) ==
  IF sortBy \in {"price-asc", "price-desc"} THEN sortByPrice(ps, sortBy)
  ELSE ps

\* Math.ceil(total / limit), limit >= 1
Floor(total, limit) == total \div limit
Ceil(total, limit) == (total + limit - 1) \div limit

\* search(query, filters, page, limit, sortBy)
NoAnswer == [done |-> FALSE, products |-> <<>>, total |-> 0, totalPages |-> 0,
             suggested |-> FALSE, suggestions |-> <<>>]
searchWith(e, q, f, page, limit, sortBy) ==
  LET found == IF IsBlank(q) THEN e.products ELSE FuseSearch(e.fuse, q)
      results == applySorting(applyFilters(found, f), sortBy)
      total == Len(results)
      startIndex == (page - 1) * limit
      endIndex == startIndex + limit
  IN [done |-> TRUE, products |-> slice(results, startIndex, endIndex),
      total |-> total, totalPages |-> Ceil(total, limit)]

\* the sortBy values searched with
SortBys == {"relevance", "price-asc", "price-desc"}

\* applyFilters returns the array it was given when no filter applies
FiltersApply(f) ==
  \/ f.vendor.has /\ f.vendor.v # <<>>
  \/ f.productType.has /\ f.productType.v # <<>>
  \/ f.minPrice.has \/ f.maxPrice.has
  \/ f.inStock.has /\ f.inStock.v
\* search: results = this.products for a blank query, so applySorting is
\* handed the collection itself when no filter applies either
PassesCollection(q, f) == IsBlank(q) /\ ~FiltersApply(f)
\* applySorting: const sorted = [...products]; sorted.sort(...) orders the
\* copy, so the array passed in is never the one sorted in place
SortsInPlaceNoCopy(sortBy) == sortBy # "relevance"
SortsInPlace(sortBy) == FALSE
\* this.products after search(query, filters, page, limit, sortBy)
productsAfterSearch(e, q, f, sortBy) ==
  IF PassesCollection(q, f) /\ SortsInPlace(sortBy)
    THEN applySorting(e.products, sortBy)
    ELSE e.products

\* engine.search(query, filters, 1, 20, sortBy) on the engine in use
SearchSorted ==
  /\ searchEngine.live
  /\ \E q \in {<<>>, <<"a">>}, by \in SortBys,
        f \in {NoFilters, [NoFilters EXCEPT !.inStock = Some(TRUE)]} :
       /\ lastRead' =
            [ReadOf("search", q, searchEngine,
                    searchWith(searchEngine, q, f, 1, DefaultLimit, by).products,
                    <<>>)
               EXCEPT !.sortBy = by, !.filtered = FiltersApply(f)]
       /\ searchEngine' =
            [searchEngine EXCEPT
               !.products = productsAfterSearch(searchEngine, q, f, by)]
  /\ UNCHANGED <<fs, indexMtime, Env, Extra, faults, runs, proc, fd,
                 isInitialized>>

\* the collections and arguments searched with
RECURSIVE Arrangements(_)
Arrangements(n) ==
  IF n = 0 THEN {<<>>}
  ELSE Arrangements(n - 1) \cup
       {Append(s, id) : <<s, id>> \in
          {x \in Arrangements(n - 1) \X CatalogIds :
             /\ Len(x[1]) = n - 1
             /\ \A i \in 1..Len(x[1]) : x[1][i] # x[2]}}
QueryCollections == Arrangements(MaxCollection)
FilterSets ==
  [vendor : {NoString, Some(<<>>), Some(<<"a", "p">>)},
   productType : {NoString, Some(<<"A", "x">>)},
   minPrice : {NoNumber, Some(0), Some(2)},
   maxPrice : {NoNumber, Some(1)},
   inStock : {NoFlag, Some(FALSE), Some(TRUE)}]
Pages == (0 - MaxPage)..(MaxPage + 1)
Limits == 1..MaxLimit
NoCall == [op |-> "search", products |-> <<>>, query |-> <<>>,
           filters |-> NoFilters, page |-> 1, limit |-> DefaultLimit,
           sortBy |-> "relevance"]
SuggestQueries ==
  {<<>>, <<"a">>, <<" ", " ">>, <<"a", "p">>, <<"S", "a">>, <<"A", "P">>}
Calls ==
  {[NoCall EXCEPT !.products = ps, !.query = q, !.filters = f] :
     ps \in Arrangements(MaxCollection - 1), q \in {<<>>, <<"a">>},
     f \in FilterSets}
  \cup
  {[NoCall EXCEPT !.products = ps, !.sortBy = by, !.filters = f] :
     ps \in QueryCollections, by \in {"price-asc", "price-desc"},
     f \in {NoFilters, [NoFilters EXCEPT !.maxPrice = Some(1)]}}
  \cup
  {[NoCall EXCEPT !.products = ps, !.page = page, !.limit = limit,
                  !.sortBy = by] :
     ps \in QueryCollections, page \in Pages, limit \in Limits,
     by \in {"relevance", "price-asc"}}
  \cup
  {[NoCall EXCEPT !.products = ps, !.query = <<" ", " ">>, !.filters = f] :
     ps \in QueryCollections,
     f \in {NoFilters, [NoFilters EXCEPT !.inStock = Some(TRUE)]}}
  \cup
  {[NoCall EXCEPT !.op = "suggest", !.products = ps, !.query = q,
                  !.limit = limit] :
     ps \in QueryCollections, q \in SuggestQueries, limit \in 0..MaxLimit}

\* engine.search(query, filters, page, limit, sortBy) on an engine built
\* over the collection
SearchCall ==
  /\ call.op = "search" /\ ~answer.done
  /\ LET r == searchWith(NewEngine(call.products), call.query, call.filters,
                         call.page, call.limit, call.sortBy)
     IN answer' = [answer EXCEPT !.done = TRUE, !.products = r.products,
                                 !.total = r.total,
                                 !.totalPages = r.totalPages]
  /\ UNCHANGED <<Rest, row, result, pipe, call>>

\* engine.getSearchSuggestions(query, limit) on an engine built over the
\* collection
SuggestCall ==
  /\ call.op = "suggest" /\ ~answer.suggested
  /\ answer' =
       [answer EXCEPT !.suggested = TRUE,
                      !.suggestions =
                        getSearchSuggestions(NewEngine(call.products),
                                             call.query, call.limit)]
  /\ UNCHANGED <<Rest, row, result, pipe, call>>

\* ------------------------------------------------- transformRow and helpers
\* A CSV cell after csv-parse (columns, trim, cast): absent, a number, or a
\* string; the price cell's JSON content is kept parsed.
Absent == [t |-> "absent", s |-> <<>>, n |-> 0]
Str(s) == [t |-> "str", s |-> s, n |-> 0]
Num(n) == [t |-> "num", s |-> <<>>, n |-> n]

\* JavaScript truthiness of a cell: !cell
Falsy(v) ==
  \/ v.t = "absent"
  \/ v.t = "str" /\ v.s = <<>>
  \/ v.t = "num" /\ v.n = 0

DigitChars == <<"0", "1", "2", "3", "4", "5", "6", "7", "8", "9">>
IsDigit(c) == \E d \in 1..10 : DigitChars[d] = c
DigitValue(c) == (CHOOSE d \in 1..10 : DigitChars[d] = c) - 1

\* String(n) for a non-negative integer
RECURSIVE Decimal(_)
Decimal(n) ==
  IF n < 10 THEN <<DigitChars[n + 1]>>
  ELSE Decimal(n \div 10) \o <<DigitChars[(n % 10) + 1]>>

\* String(cell || "")
StringOf(v) ==
  IF Falsy(v) THEN <<>>
  ELSE IF v.t = "num" THEN Decimal(v.n) ELSE v.s

\* Prices are counted in units of 1/Scale, fine enough for every fraction a
\* text of MaxTextLen characters can hold; NaN stands for Number.NaN.
RECURSIVE Pow10(_)
Pow10(k) == IF k = 0 THEN 1 ELSE 10 * Pow10(k - 1)
Scale == Pow10(MaxTextLen)
NaN == 0 - 1

\* the leading run of digits of s, as a number, and its length
RECURSIVE DigitRun(_)
DigitRun(s) ==
  IF s = <<>> \/ ~IsDigit(Head(s)) THEN <<>>
  ELSE <<Head(s)>> \o DigitRun(Tail(s))
RECURSIVE DigitsValue(_)
DigitsValue(s) ==
  IF s = <<>> THEN 0
  ELSE DigitsValue(SubSeq(s, 1, Len(s) - 1)) * 10 + DigitValue(s[Len(s)])

\* parseFloat on a string of digits and dots: the longest leading decimal
\* literal (digits, then a dot and digits), NaN when it holds no digit
parseFloatText(s) ==
  LET int == DigitRun(s)
      rest == SubSeq(s, Len(int) + 1, Len(s))
      frac == IF rest # <<>> /\ Head(rest) = "." THEN DigitRun(Tail(rest))
              ELSE <<>>
  IN IF int = <<>> /\ frac = <<>> THEN NaN
     ELSE DigitsValue(int) * Scale
          + DigitsValue(frac) * Pow10(MaxTextLen - Len(frac))

\* parseFloat(value || 0) on a JSON value
parseFloatOr0(v) ==
  IF Falsy(v) THEN 0
  ELSE IF v.t = "num" THEN v.n
  ELSE IF v.t = "str" THEN parseFloatText(v.s)
  ELSE NaN

\* priceField.toString().match(/[\d.]+/g): the maximal runs of digits and dots
IsTokenChar(c) == IsDigit(c) \/ c = "."
RECURSIVE Tokens(_, _)
Tokens(s, cur) ==
  IF s = <<>> THEN (IF cur = <<>> THEN <<>> ELSE <<cur>>)
  ELSE IF IsTokenChar(Head(s)) THEN Tokens(Tail(s), Append(cur, Head(s)))
  ELSE (IF cur = <<>> THEN <<>> ELSE <<cur>>) \o Tokens(Tail(s), <<>>)

\* JSON.parse accepts the text: of the texts here only number literals do
AllDigits(s) == s # <<>> /\ \A i \in 1..Len(s) : IsDigit(s[i])
UnsignedLiteral(s) ==
  \/ AllDigits(s)
  \/ \E k \in 2..(Len(s) - 1) :
       /\ s[k] = "."
       /\ AllDigits(SubSeq(s, 1, k - 1))
       /\ AllDigits(SubSeq(s, k + 1, Len(s)))
IsJsonNumber(s) ==
  \/ UnsignedLiteral(s)
  \/ s # <<>> /\ s[1] = "-" /\ UnsignedLiteral(Tail(s))

\* a price cell: absent, the number 0, a text, a JSON object (obj: its
\* fields min_variant_price, max_variant_price, min, max) or other JSON
PriceCell(kind, text, obj) == [kind |-> kind, text |-> text, obj |-> obj]
PriceFalsy(c) ==
  c.kind \in {"absent", "zero"} \/ (c.kind = "text" /\ c.text = <<>>)

Range(lo, hi) == [min |-> lo, max |-> hi]

\* an amount object {amount: a}: .amount read off a field value
Amount(v) == IF v.t = "obj" THEN v.a ELSE Absent
Obj(a) == [t |-> "obj", s |-> <<>>, n |-> 0, a |-> a]
Plain(v) == [t |-> v.t, s |-> v.s, n |-> v.n, a |-> Absent]
NoFields == [minVar |-> Plain(Absent), maxVar |-> Plain(Absent),
             min |-> Plain(Absent), max |-> Plain(Absent)]
FieldFalsy(v) == v.t # "obj" /\ Falsy(v)
FieldFloatOr0(v) == IF v.t = "obj" THEN NaN ELSE parseFloatOr0(v)

parsePriceRange(c) ==
  IF PriceFalsy(c) THEN Range(0, 0)
  ELSE IF c.kind = "object" THEN
    LET o == c.obj IN
    IF ~FieldFalsy(o.minVar) /\ ~FieldFalsy(o.maxVar)
      THEN Range(parseFloatOr0(Amount(o.minVar)),
                 parseFloatOr0(Amount(o.maxVar)))
    ELSE IF o.min.t # "absent" \/ o.max.t # "absent"
      THEN Range(FieldFloatOr0(o.min), FieldFloatOr0(o.max))
    ELSE IF ~FieldFalsy(o.minVar) \/ ~FieldFalsy(o.maxVar)
      THEN Range(FieldFloatOr0(o.minVar), FieldFloatOr0(o.maxVar))
    ELSE Range(0, 0)
  ELSE IF c.kind = "other" THEN Range(0, 0)
  ELSE IF IsJsonNumber(c.text) THEN Range(0, 0)
  ELSE LET matches == Tokens(c.text, <<>>) IN
       IF Len(matches) >= 2
         THEN Range(parseFloatText(matches[1]), parseFloatText(matches[2]))
       ELSE IF Len(matches) = 1
         THEN Range(parseFloatText(matches[1]), parseFloatText(matches[1]))
       ELSE Range(0, 0)

\* transformRow(row, config): null, or the product (the fields the index
\* and the engine use)
Rejected == [ok |-> FALSE, id |-> <<>>, title |-> <<>>,
             priceRange |-> Range(0, 0)]
RequiredMissing(r) == Falsy(r.ID) \/ Falsy(r.TITLE)
transformRow(r) ==
  IF RequiredMissing(r) THEN Rejected
  ELSE [ok |-> TRUE, id |-> StringOf(r.ID), title |-> StringOf(r.TITLE),
        priceRange |->
          parsePriceRange(IF ~PriceFalsy(r.PRICE_RANGE_V2)
                            THEN r.PRICE_RANGE_V2 ELSE r.PRICE_RANGE)]

\* the rows fed to the functions
NoPrice == PriceCell("absent", <<>>, NoFields)
TextChars == {"1", "2", "-", ".", "x"}
Texts == UNION {[1..n -> TextChars] : n \in 0..MaxTextLen}
Amounts == {Absent, Num(0), Num(Scale), Num(2 * Scale), Str(<<"x">>)}
DirectValues == {Plain(v) : v \in Amounts \cup {Num(0 - Scale)}}
VariantValues == {Plain(Absent), Plain(Num(Scale))} \cup {Obj(a) : a \in Amounts}
PriceObjects ==
  [minVar : VariantValues, maxVar : VariantValues,
   min : DirectValues, max : DirectValues]
PriceCells ==
  {NoPrice, PriceCell("zero", <<>>, NoFields), PriceCell("other", <<>>, NoFields)}
    \cup {PriceCell("text", t, NoFields) : t \in Texts}
    \cup {PriceCell("object", <<>>, o) : o \in PriceObjects}
IdCells == {Absent, Str(<<>>), Str(<<"a">>), Num(0), Num(7)}
TitleCells == {Absent, Str(<<>>), Str(<<"A", "p">>), Num(0), Num(12)}
FallbackCells == {NoPrice, PriceCell("text", <<"x", "2">>, NoFields)}
MakeRow(id, title, v2, v1) ==
  [ID |-> id, TITLE |-> title, PRICE_RANGE_V2 |-> v2, PRICE_RANGE |-> v1]
Rows ==
  {MakeRow(id, title, NoPrice, v1) :
     id \in IdCells, title \in TitleCells, v1 \in FallbackCells}
    \cup {MakeRow(Str(<<"a">>), Str(<<"A", "p">>), v2, v1) :
            v2 \in PriceCells, v1 \in FallbackCells}

NoResult == [op |-> "none", product |-> Rejected, range |-> Range(0, 0)]

\* a caller applies transformRow, or parsePriceRange alone
\* (csvTransformations exports both), to a row
CallTransformRow ==
  /\ result' = [NoResult EXCEPT !.op = "transformRow",
                                !.product = transformRow(row)]
  /\ UNCHANGED <<row, Core>>

CallParsePriceRange ==
  /\ result' = [NoResult EXCEPT !.op = "parsePriceRange",
                                !.range = parsePriceRange(row.PRICE_RANGE_V2)]
  /\ UNCHANGED <<row, Core>>

\* ------------------------------------- processCSV on one CSVProcessor: steps
\* new CSVProcessor(config): metrics.errorCount is 0. The fields accepted,
\* rejected, ended, saveStarted, written and calls record the run's history.
NewProcessor ==
  [pc |-> "idle", errorCount |-> 0, chunk |-> <<>>, products |-> <<>>,
   rowsRead |-> 0, accepted |-> <<>>, rejected |-> 0, ended |-> FALSE,
   saveStarted |-> FALSE, written |-> FALSE, report |-> 0, err |-> "none",
   calls |-> 0, batches |-> <<>>]

\* the rows the parser may deliver
PipeRows ==
  {MakeRow(id, title, NoPrice, NoPrice) :
     id \in {Absent, Str(<<"a">>), Num(7)},
     title \in {Str(<<>>), Str(<<"A", "p">>)}}

\* processCSV's catch: this.metrics.errorCount++; throw error
RaisePipe(e) ==
  [pipe EXCEPT !.pc = "raised", !.err = e, !.errorCount = @ + 1]

\* processCSV(filePath): products = [], the stream is opened; the metrics
\* object of the processor is kept
StartRun ==
  /\ pipe.pc \in {"idle", "returned", "raised"}
  /\ pipe.calls < MaxProcessorRuns
  /\ pipe' = [NewProcessor EXCEPT !.pc = "reading",
                                  !.errorCount = pipe.errorCount,
                                  !.calls = pipe.calls + 1]
  /\ UNCHANGED <<Rest, row, result, call, answer>>

\* for await (const row of stream): one row is transformed; a product joins
\* the chunk, which is yielded when full; a null counts as an error
ReadRow ==
  /\ pipe.pc = "reading" /\ pipe.rowsRead < MaxRows
  /\ \E r \in PipeRows :
       LET product == transformRow(r) IN
       pipe' =
         IF product.ok
           THEN [pipe EXCEPT !.rowsRead = @ + 1,
                             !.chunk = Append(@, product.id),
                             !.accepted = Append(@, product.id),
                             !.batches =
                               IF Len(pipe.chunk) + 1 >= ChunkSize
                                 THEN Append(@, Append(pipe.chunk, product.id))
                                 ELSE @,
                             !.pc = IF Len(pipe.chunk) + 1 >= ChunkSize
                                      THEN "yielded" ELSE "reading"]
           ELSE [pipe EXCEPT !.rowsRead = @ + 1,
                             !.errorCount = @ + 1,
                             !.rejected = @ + 1]
  /\ UNCHANGED <<Rest, row, result, call, answer>>

\* the stream ends: the remaining chunk, if any, is yielded
StreamEnd ==
  /\ pipe.pc = "reading"
  /\ pipe' = [pipe EXCEPT !.ended = TRUE,
                          !.batches = IF pipe.chunk # <<>>
                                        THEN Append(@, pipe.chunk) ELSE @,
                          !.pc = IF pipe.chunk # <<>> THEN "yielded"
                                 ELSE "joined"]
  /\ UNCHANGED <<Rest, row, result, call, answer>>

\* the stream cannot be opened, or a read fails: the for await throws
StreamFail ==
  /\ pipe.pc = "reading"
  /\ pipe' = RaisePipe(IF pipe.rowsRead = 0 THEN "ENOENT" ELSE "EIO")
  /\ UNCHANGED <<Rest, row, result, call, answer>>

\* products.push(...chunk); the generator resumes (chunk = []) or is done
MergeChunk ==
  /\ pipe.pc = "yielded"
  /\ pipe' = [pipe EXCEPT !.products = @ \o pipe.chunk,
                          !.chunk = <<>>,
                          !.pc = IF pipe.ended THEN "joined" ELSE "reading"]
  /\ UNCHANGED <<Rest, row, result, call, answer>>

\* after the loop: generateMetadata(products); await saveSearchIndex(...)
StreamDoneEarly(p) == p.pc \in {"joined", "yielded"}
StreamDone(p) == p.pc = "joined"
StartPersist ==
  /\ StreamDone(pipe)
  /\ pipe' = [pipe EXCEPT !.pc = "persist", !.saveStarted = TRUE]
  /\ UNCHANGED <<Rest, row, result, call, answer>>

\* saveSearchIndex settles: the result is returned with this.metrics, or the
\* error reaches processCSV's catch (a file may have been written by then)
Persist ==
  /\ pipe.pc = "persist"
  /\ \/ pipe' = [pipe EXCEPT !.pc = "returned", !.written = TRUE,
                             !.report = pipe.errorCount]
     \/ \E w \in BOOLEAN :
          pipe' = [RaisePipe("save") EXCEPT !.written = w]
  /\ UNCHANGED <<Rest, row, result, call, answer>>

\* ------------------------------------------------------------ initial states
IndexMtimes == {Now - 24, Now - 18}
CsvMtimes == {Now - 20}

\* no pure function is being exercised
PureIdle ==
  /\ row = MakeRow(Absent, Absent, NoPrice, NoPrice)
  /\ result = NoResult
  /\ pipe = NewProcessor
  /\ call = NoCall /\ answer = NoAnswer

\* what may lie at indexPath when a process starts
InitIndexFiles ==
  {NoFile, Index(<<>>), Index(<<1>>),
   [kind |-> "array", products |-> <<1>>, size |-> MinIndexBytes],
   [kind |-> "noprods", products |-> <<>>, size |-> MinIndexBytes],
   [kind |-> "trunc", products |-> <<>>, size |-> MinIndexBytes - 1],
   [kind |-> "trunc", products |-> <<>>, size |-> MinIndexBytes]}

InitCommon ==
  /\ nodeEnv \in {"development", "production"}
  /\ vercel \in BOOLEAN
  /\ csvExists \in BOOLEAN
  /\ csvMtime \in (IF csvExists THEN CsvMtimes ELSE {0})
  /\ indexMtime \in (IF existsSync(fs.canonical) THEN IndexMtimes ELSE {0})
  /\ runs = MaxRuns
  /\ proc = [p \in Procs |-> Idle]
  /\ fd = [p \in Procs |-> "none"]
  /\ isInitialized = FALSE
  /\ lastRead = NoRead
  /\ modules = NoModules
  /\ indexPath = DefaultIndexPath
  /\ PureIdle

Init ==
  /\ fs \in [canonical : InitIndexFiles, backup : {NoFile, Index(<<1>>)},
             old : {NoFile}, temp : {NoFile}]
  /\ faults = MaxFaults
  /\ searchEngine = NoEngine
  /\ InitCommon

\* one process: a build driver or a process-start driver, call after call
Next ==
  \E p \in {1} :
    \/ StartBuild(p) \/ StartResolve(p) \/ ReadStream(p) \/ Mkdir(p)
    \/ CopyToBackup(p) \/ WriteOpen(p) \/ WriteData(p) \/ ReadBack(p)
    \/ RenameTemp(p) \/ UnlinkOld(p) \/ RenameBackup(p) \/ CleanupTemp(p)
    \/ RestoreFromBackup(p) \/ LoadIndex(p) \/ Crash(p) \/ Reset(p)

Spec == Init /\ [][Next]_vars

\* builds: generate-index run after run, in any environment
InitGenerate ==
  /\ fs \in [canonical : {NoFile, Index(<<1>>),
                          [kind |-> "trunc", products |-> <<>>,
                           size |-> MinIndexBytes]},
             backup : {NoFile, Index(<<1>>)}, old : {NoFile}, temp : {NoFile}]
  /\ nodeEnv \in {"development", "production"}
  /\ vercel \in BOOLEAN
  /\ csvExists \in BOOLEAN
  /\ csvMtime \in (IF csvExists THEN CsvMtimes ELSE {0})
  /\ indexMtime \in (IF existsSync(fs.canonical) THEN IndexMtimes \cup {Now}
                     ELSE {0})
  /\ faults \in {0, MaxFaults}
  /\ runs = MaxRuns
  /\ proc = [p \in Procs |-> Idle]
  /\ fd = [p \in Procs |-> "none"]
  /\ searchEngine = NoEngine
  /\ isInitialized = FALSE
  /\ lastRead = NoRead
  /\ modules = NoModules
  /\ indexPath = DefaultIndexPath
  /\ PureIdle

NextGenerate ==
  \E p \in {1} :
    \/ GenerateStart(p) \/ GenerateFallback(p) \/ ReadStream(p) \/ Mkdir(p)
    \/ CopyToBackup(p) \/ WriteOpen(p) \/ WriteData(p) \/ ReadBack(p)
    \/ RenameTemp(p) \/ UnlinkOld(p) \/ RenameBackup(p) \/ CleanupTemp(p)
    \/ RestoreFromBackup(p) \/ Reset(p)

SpecGenerate == InitGenerate /\ [][NextGenerate]_vars

\* a writable machine: ensureSearchIndex called on a StartupProcessor that was
\* built with or without config.indexPath
ConfiguredFiles == {NoFile, Index(<<1>>), Index(<<2, 1>>)}
InitConfigured ==
  /\ fs \in [canonical : {NoFile, Index(<<1>>)}, backup : {NoFile, Index(<<1>>)},
              old : {NoFile}, temp : {NoFile}]
  /\ nodeEnv = "development" /\ vercel = FALSE
  /\ csvExists = TRUE /\ csvMtime \in CsvMtimes
  /\ indexMtime \in (IF existsSync(fs.canonical) THEN IndexMtimes ELSE {0})
  /\ indexPath \in {DefaultIndexPath} \cup
       {[custom |-> TRUE, file |-> f, mtime |-> IF existsSync(f) THEN m ELSE 0] :
          f \in ConfiguredFiles, m \in IndexMtimes}
  /\ faults \in {0, MaxFaults}
  /\ runs = MaxRuns
  /\ proc = [p \in Procs |-> Idle]
  /\ fd = [p \in Procs |-> "none"]
  /\ searchEngine = NoEngine
  /\ isInitialized = FALSE
  /\ lastRead = NoRead
  /\ modules = NoModules
  /\ PureIdle

NextConfigured ==
  \E p \in {1} :
    \/ StartResolve(p) \/ ReadStream(p) \/ Mkdir(p) \/ CopyToBackup(p)
    \/ WriteOpen(p) \/ WriteData(p) \/ ReadBack(p) \/ RenameTemp(p)
    \/ UnlinkOld(p) \/ RenameBackup(p) \/ CleanupTemp(p)
    \/ RestoreFromBackup(p) \/ LoadIndex(p) \/ Reset(p)

SpecConfigured == InitConfigured /\ [][NextConfigured]_vars

\* a writable development server: every request calls initializeSearchEngine,
\* and two requests may be in flight at once
InitServe ==
  /\ fs \in [canonical : {NoFile, Index(<<1>>)}, backup : {NoFile, Index(<<1>>)},
              old : {NoFile}, temp : {NoFile}]
  /\ nodeEnv = "development" /\ vercel = FALSE
  /\ csvExists = TRUE /\ csvMtime \in CsvMtimes
  /\ indexMtime \in (IF existsSync(fs.canonical) THEN IndexMtimes ELSE {0})
  /\ faults = 0
  /\ runs = MaxRuns
  /\ proc = [p \in Procs |-> Idle]
  /\ fd = [p \in Procs |-> "none"]
  /\ searchEngine = NoEngine
  /\ isInitialized = FALSE
  /\ lastRead = NoRead
  /\ modules = NoModules
  /\ indexPath = DefaultIndexPath
  /\ PureIdle

NextServe ==
  \E p \in Procs :
    \/ Request(p) \/ ReadStream(p) \/ Mkdir(p) \/ CopyToBackup(p)
    \/ WriteOpen(p) \/ WriteData(p) \/ ReadBack(p) \/ RenameTemp(p)
    \/ UnlinkOld(p) \/ RenameBackup(p) \/ CleanupTemp(p)
    \/ RestoreFromBackup(p) \/ LoadIndex(p) \/ Reset(p)

SpecServe == InitServe /\ [][NextServe]_vars

\* a read-only deployment serving requests one after another
RouteCalls == MaxRuns + 2
InitRoutes ==
  /\ fs \in [canonical : {NoFile, Index(<<1>>), Index(<<2, 1>>)},
              backup : {NoFile}, old : {NoFile}, temp : {NoFile}]
  /\ nodeEnv \in {"development", "production"}
  /\ vercel = (nodeEnv = "development")
  /\ csvExists = TRUE /\ csvMtime \in CsvMtimes
  /\ indexMtime \in (IF existsSync(fs.canonical) THEN IndexMtimes ELSE {0})
  /\ faults = 0
  /\ runs = RouteCalls
  /\ proc = [p \in Procs |-> Idle]
  /\ fd = [p \in Procs |-> "none"]
  /\ searchEngine = NoEngine
  /\ isInitialized = FALSE
  /\ lastRead = NoRead
  /\ modules = NoModules
  /\ indexPath = DefaultIndexPath
  /\ PureIdle

NextRoutes ==
  \E p \in {1} :
    \/ Request(p) \/ MetadataRequest(p) \/ SuggestRequest(p) \/ ActionCall(p)
    \/ LoadIndex(p) \/ Reset(p)

SpecRoutes == InitRoutes /\ [][NextRoutes]_vars

\* the transformation functions applied to any one row
InitTransform ==
  /\ fs = [f \in Files |-> NoFile]
  /\ nodeEnv = "development" /\ vercel = FALSE
  /\ csvExists = FALSE /\ csvMtime = 0 /\ indexMtime = 0
  /\ faults = 0 /\ runs = 0
  /\ proc = [p \in Procs |-> Idle]
  /\ fd = [p \in Procs |-> "none"]
  /\ searchEngine = NoEngine
  /\ isInitialized = FALSE
  /\ lastRead = NoRead
  /\ modules = NoModules
  /\ indexPath = DefaultIndexPath
  /\ row \in Rows
  /\ result = NoResult
  /\ pipe = NewProcessor
  /\ call = NoCall /\ answer = NoAnswer

NextTransform == CallTransformRow \/ CallParsePriceRange

SpecTransform == InitTransform /\ [][NextTransform]_vars

\* processCSV called again and again on one CSVProcessor
InitPipeline ==
  /\ fs = [f \in Files |-> NoFile]
  /\ nodeEnv = "development" /\ vercel = FALSE
  /\ csvExists = FALSE /\ csvMtime = 0 /\ indexMtime = 0
  /\ faults = 0 /\ runs = 0
  /\ proc = [p \in Procs |-> Idle]
  /\ fd = [p \in Procs |-> "none"]
  /\ searchEngine = NoEngine
  /\ isInitialized = FALSE
  /\ lastRead = NoRead
  /\ modules = NoModules
  /\ indexPath = DefaultIndexPath
  /\ row = MakeRow(Absent, Absent, NoPrice, NoPrice)
  /\ result = NoResult
  /\ pipe = NewProcessor
  /\ call = NoCall /\ answer = NoAnswer

NextPipeline ==
  \/ StartRun \/ ReadRow \/ StreamEnd \/ StreamFail \/ MergeChunk
  \/ StartPersist \/ Persist

SpecPipeline == InitPipeline /\ [][NextPipeline]_vars

\* search called with any of the arguments on any of the collections
InitQuery ==
  /\ fs = [f \in Files |-> NoFile]
  /\ nodeEnv = "development" /\ vercel = FALSE
  /\ csvExists = FALSE /\ csvMtime = 0 /\ indexMtime = 0
  /\ faults = 0 /\ runs = 0
  /\ proc = [p \in Procs |-> Idle]
  /\ fd = [p \in Procs |-> "none"]
  /\ searchEngine = NoEngine
  /\ isInitialized = FALSE
  /\ lastRead = NoRead
  /\ modules = NoModules
  /\ indexPath = DefaultIndexPath
  /\ row = MakeRow(Absent, Absent, NoPrice, NoPrice)
  /\ result = NoResult
  /\ pipe = NewProcessor
  /\ call \in Calls
  /\ answer = NoAnswer

NextQuery == SearchCall \/ SuggestCall

SpecQuery == InitQuery /\ [][NextQuery]_vars

\* a SearchEngine built over two products, then used and updated
InitEngine ==
  /\ fs = [f \in Files |-> NoFile]
  /\ nodeEnv = "development" /\ vercel = FALSE
  /\ csvExists = FALSE /\ csvMtime = 0 /\ indexMtime = 0
  /\ faults = 0 /\ runs = 0
  /\ proc = [p \in Procs |-> Idle]
  /\ fd = [p \in Procs |-> "none"]
  /\ searchEngine = NewEngine(<<1, 2>>)
  /\ isInitialized = TRUE
  /\ lastRead = NoRead
  /\ modules = NoModules
  /\ indexPath = DefaultIndexPath
  /\ PureIdle

NextEngine == UpdateProducts \/ Search \/ SearchSorted \/ Suggest \/ Vendors

SpecEngine == InitEngine /\ [][NextEngine]_vars

\* =================================================================== claims
Production == nodeEnv = "production" \/ vercel

C3_Original ==
  \A p \in Procs :
    (proc[p].pc = "raised" /\ proc[p].tempCreated) => ~existsSync(fs.temp)

\* C3 (amended): ... the temp file no longer exists, unless the unlink of the
\* cleanup itself failed (the failure is logged and swallowed).
C3_TempRemoved ==
  \A p \in Procs :
    (proc[p].pc = "raised" /\ proc[p].tempCreated) =>
      (~existsSync(fs.temp) \/ proc[p].cleanup = "failed")

C3_Witness ==
  \E p \in Procs :
    /\ proc[p].pc = "raised" /\ proc[p].tempCreated
    /\ proc[p].cleanup = "ok" /\ ~existsSync(fs.temp)

C5_ReadOnly ==
  /\ [][Production => fs' = fs]_vars
  /\ [](\A p \in Procs :
          (Production /\ proc[p].entry = "build" /\ proc[p].pc = "done") =>
             /\ proc[p].ret = proc[p].products
             /\ proc[p].indexSize = 0
             /\ ~proc[p].saving)

C5_Witness ==
  \E p \in Procs :
    /\ Production /\ proc[p].entry = "build" /\ proc[p].pc = "done"
    /\ Len(proc[p].ret) = NumIds /\ proc[p].errorCount = MaxRejects
    /\ fs.canonical # Index(proc[p].ret)

\* a resolve call right after its decision: nothing has changed the files
\* since shouldRegenerateIndex looked at them
Decided(r) ==
  /\ r.entry = "resolve"
  /\ r.pc = "stream" \/ (r.pc = "load_read" /\ ~r.regen)

\* C6 (as claimed): in writable mode resolve rebuilds if and only if force
\* is set, the index is missing, the index is older than the source, the
\* index age exceeds maxAgeHours or the index is smaller than the threshold.
C6_Original ==
  \A p \in Procs :
    (~Production /\ Decided(proc[p])) =>
      (proc[p].regen <=>
         \/ proc[p].force
         \/ ~existsSync(fs.canonical)
         \/ indexMtime < csvMtime
         \/ Now - indexMtime > proc[p].maxAge
         \/ fs.canonical.size < MinIndexBytes)

\* C6 (amended): in writable mode resolve rebuilds if and only if force is
\* set, or the source file exists and the index is missing, cannot be
\* stat'ed, is older than the source, is older than maxAgeHours or is
\* smaller than the threshold; otherwise it loads the existing file as it is
\* without running the pipeline.
C6_Decision ==
  \A p \in Procs :
    /\ (~Production /\ Decided(proc[p])) =>
         /\ proc[p].regen <=>
              \/ proc[p].force
              \/ /\ csvExists
                 /\ \/ ~existsSync(fs.canonical)
                    \/ proc[p].statThrew
                    \/ indexMtime < csvMtime
                    \/ Now - indexMtime > proc[p].maxAge
                    \/ fs.canonical.size < MinIndexBytes
         /\ proc[p].ran <=> proc[p].regen
    /\ (~Production /\ proc[p].entry = "resolve" /\ ~proc[p].regen) =>
         /\ ~proc[p].ran /\ ~proc[p].saving
         /\ proc[p].pc = "done" => proc[p].loaded = fs.canonical.products

\* an index that only its age condemns, under a configured maxAgeHours
C6_Witness ==
  \E p \in Procs :
    /\ ~Production /\ proc[p].entry = "resolve" /\ proc[p].pc = "stream"
    /\ ~proc[p].force /\ csvExists /\ ~proc[p].statThrew
    /\ existsSync(fs.canonical) /\ fs.canonical.size >= MinIndexBytes
    /\ indexMtime >= csvMtime
    /\ Now - indexMtime > proc[p].maxAge
    /\ Now - indexMtime <= DefaultMaxAgeHours
    /\ proc[p].regen

\* C7: in read-only mode resolve never runs the pipeline, whatever force and
\* the state of the index; it ends with the records of the index file when
\* the file loads and raises the fatal error when it is absent or corrupt.
C7_ReadOnlyResolve ==
  \A p \in Procs :
    (Production /\ proc[p].entry = "resolve") =>
      /\ ~proc[p].ran /\ ~proc[p].regen /\ ~proc[p].saving
      /\ proc[p].pc \in {"load_read", "done", "raised"}
      /\ proc[p].pc = "done" =>
           /\ fs.canonical.kind \in {"object", "array"}
           /\ proc[p].loaded = fs.canonical.products
      /\ proc[p].pc = "raised" => proc[p].err = "Search index not found"
      /\ fs.canonical.kind \notin {"object", "array"} => proc[p].pc # "done"

\* forced, with a source newer than the index: the stale index is loaded
C7_Witness ==
  \E p \in Procs :
    /\ Production /\ proc[p].entry = "resolve" /\ proc[p].pc = "done"
    /\ proc[p].force /\ csvExists /\ csvMtime > indexMtime
    /\ Len(proc[p].loaded) > 0 /\ proc[p].loaded = fs.canonical.products

\* C8 (as claimed): in writable mode an index file that passes the
\* existence, timestamp, age and size checks but does not parse as a valid
\* artifact makes resolve rebuild; the load error is not raised.
C8_Original ==
  \A p \in Procs :
    (/\ ~Production /\ proc[p].entry = "resolve" /\ csvExists
     /\ existsSync(fs.canonical)
     /\ fs.canonical.kind \notin {"object", "array"}
     /\ proc[p].pc = "raised") => proc[p].ran

\* C2 (as claimed): step 3 rejects a written temp file whose products array
\* is empty: saveSearchIndex raises the validation error and the canonical
\* file is not replaced.
C2_Original ==
  \A p \in Procs :
    (proc[p].tempRead.kind = "object" /\ proc[p].tempRead.products = <<>>) =>
      /\ proc[p].thrown = "Generated index file is invalid"
      /\ ~proc[p].renamed

\* C2 (amended): step 3 rejects the temp file exactly when what it read back
\* does not parse or has no products array; the run then raises and does
\* not rename the temp file over the canonical one.  A file with a products
\* array passes, an empty array included.
C2_Validation ==
  \A p \in Procs :
    LET d == proc[p].tempRead IN
    d.kind # "none" =>
      IF d.kind = "object"
        THEN /\ proc[p].thrown \notin {"SyntaxError",
                                      "Generated index file is invalid"}
             /\ proc[p].pc = "rename" => proc[p].thrown = "none"
        ELSE /\ ~proc[p].renamed
             /\ proc[p].pc \notin {"rename", "done", "load_read"}
             /\ proc[p].thrown = IF d.kind = "trunc" THEN "SyntaxError"
                                 ELSE "Generated index file is invalid"

\* a run that read back a truncated temp file and raised without renaming
C2_Witness ==
  \E p \in Procs :
    /\ proc[p].tempRead.kind = "trunc" /\ proc[p].pc = "raised"
    /\ proc[p].err = "SyntaxError" /\ ~proc[p].renamed

\* C9 (as claimed): at no time are two runs of saveSearchIndex in progress
\* on the same index path.
C9_Original ==
  Cardinality({p \in Procs : proc[p].saving /\ proc[p].pc \in PersistPcs}) <= 1

\* C10: updateProducts is atomic with respect to reads: the engine never
\* holds a collection with a match structure built over another one, every
\* read saw a collection with its own structure, and every read reflects
\* the collection current when it is made.
IdsOf(s) == {s[i] : i \in 1..Len(s)}
C10_Atomic ==
  /\ [](searchEngine.live =>
          searchEngine.fuse = initializeFuse(searchEngine.products))
  /\ [](lastRead.op # "none" =>
          lastRead.seenFuse = initializeFuse(lastRead.seenProducts))
  /\ [][lastRead' # lastRead =>
          /\ lastRead'.seenProducts = searchEngine.products
          /\ searchEngine' = searchEngine
          /\ IdsOf(lastRead'.items) \subseteq IdsOf(searchEngine.products)
          /\ IdsOf(lastRead'.suggestions) \subseteq
               UNION {{TitleOf(id), VendorOf(id), TypeOf(id)} :
                        id \in IdsOf(searchEngine.products)}]_vars

\* after an update to the single product 3, a search by its vendor finds it
C10_Witness ==
  /\ searchEngine.products = <<3>>
  /\ lastRead.op = "search" /\ lastRead.query = <<"S", "a">>
  /\ lastRead.seenProducts = <<3>> /\ lastRead.items = <<3>>

\* resolver calls / engine constructions of all callers together
Total(f) == f["request"] + f["metadata"] + f["suggest"] + f["action"]
InFlight(c) ==
  Cardinality({p \in Procs : proc[p].entry = c /\ proc[p].pc = "load_read"})

Missing(v) == v.t = "absent" \/ (v.t = "str" /\ v.s = <<>>)

\* C14 (as claimed): transformRow returns null exactly for the rows whose ID
\* or TITLE is missing or empty, and every other row yields a record, so no
\* record has an empty id or an empty title.
C14_Original ==
  result.op = "transformRow" =>
    /\ ~result.product.ok <=> (Missing(row.ID) \/ Missing(row.TITLE))
    /\ result.product.ok =>
         result.product.id # <<>> /\ result.product.title # <<>>

\* the forms of a price field the price parser looks for
HasNested(c) ==
  c.kind = "object" /\ c.obj.minVar.t = "obj" /\ c.obj.maxVar.t = "obj"
HasDirectOnly(c) ==
  /\ c.kind = "object"
  /\ c.obj.minVar.t = "absent" /\ c.obj.maxVar.t = "absent"
  /\ c.obj.min.t # "absent" \/ c.obj.max.t # "absent"
NumericTokens(c) == IF c.kind = "text" THEN Tokens(c.text, <<>>) ELSE <<>>

\* C15 (as claimed): parsePriceRange takes the nested amounts when the field
\* has the nested form, else the direct min/max, else the numeric tokens of
\* the text (two or more: the first two; exactly one: that one twice), and
\* returns {0,0} for a field none of these applies to.
C15_Original ==
  result.op = "parsePriceRange" =>
    LET c == row.PRICE_RANGE_V2
        t == NumericTokens(c)
    IN /\ HasNested(c) =>
            result.range = Range(parseFloatOr0(Amount(c.obj.minVar)),
                                 parseFloatOr0(Amount(c.obj.maxVar)))
       /\ HasDirectOnly(c) =>
            result.range = Range(FieldFloatOr0(c.obj.min),
                                 FieldFloatOr0(c.obj.max))
       /\ Len(t) >= 2 =>
            result.range = Range(parseFloatText(t[1]), parseFloatText(t[2]))
       /\ Len(t) = 1 =>
            result.range = Range(parseFloatText(t[1]), parseFloatText(t[1]))
       /\ (c.kind # "object" /\ Len(t) = 0) => result.range = Range(0, 0)

\* C16 (as claimed): the record transformRow makes of any row has
\* priceRange.min >= 0, priceRange.max >= 0 and min <= max (a NaN bound
\* satisfies no comparison).
C16_Original ==
  (result.op = "transformRow" /\ result.product.ok) =>
    LET r == result.product.priceRange IN
    /\ r.min # NaN /\ r.max # NaN
    /\ r.min >= 0 /\ r.max >= 0
    /\ r.min <= r.max

C13_Original ==
  pipe.pc = "returned" => pipe.report = pipe.rejected

\* what the search worked on: the candidates, filtered, sorted
Found ==
  IF IsBlank(call.query) THEN call.products
  ELSE FuseSearch(initializeFuse(call.products), call.query)
Sorted == applySorting(applyFilters(Found, call.filters), call.sortBy)
Smaller(a, b) == IF a < b THEN a ELSE b

\* C17 (as claimed): search returns total = the number of filtered
\* candidates, totalPages = ceil(total / limit), and as items the sorted list
\* from offset (page-1)*limit, at most limit of them; a page outside
\* 1..totalPages, zero and negative ones included, has no items.
C17_Original ==
  answer.done =>
    /\ answer.total = Len(Sorted)
    /\ answer.totalPages = Ceil(Len(Sorted), call.limit)
    /\ answer.products =
         IF call.page \in 1..answer.totalPages
           THEN SubSeq(Sorted, (call.page - 1) * call.limit + 1,
                       Smaller(call.page * call.limit, Len(Sorted)))
           ELSE <<>>

\* the single price if the record has one, else the bound
PresentPriceOr(id, bound) == IF HasPrice(id) THEN PriceOf(id) ELSE bound
\* the single price if the record has one that is not 0, else the bound
NonZeroPriceOr(id, bound) ==
  IF HasPrice(id) /\ PriceOf(id) # 0 THEN PriceOf(id) ELSE bound
Supplied(arg) == arg.has
Contains(text, part) == includes(toLowerCase(text), toLowerCase(part))

\* a search that neither sorts nor cuts a page off
FilterOnly ==
  answer.done /\ call.sortBy = "relevance" /\ call.page = 1
              /\ call.limit = DefaultLimit

\* C18 (as claimed): a candidate is kept exactly if it satisfies every
\* supplied filter, minPrice being compared with the single price if the
\* record has one, else with the range max, and maxPrice with the single
\* price if it has one, else with the range min.
C18_Original ==
  FilterOnly =>
    LET f == call.filters IN
    answer.products = SelectSeq(Found, LAMBDA id :
      /\ Supplied(f.vendor) => Contains(VendorOf(id), f.vendor.v)
      /\ Supplied(f.productType) => Contains(TypeOf(id), f.productType.v)
      /\ Supplied(f.minPrice) =>
           PresentPriceOr(id, RangeOf(id).max) >= f.minPrice.v
      /\ Supplied(f.maxPrice) =>
           PresentPriceOr(id, RangeOf(id).min) <= f.maxPrice.v
      /\ (Supplied(f.inStock) /\ f.inStock.v) =>
           (InventoryOf(id) > 0 /\ ~HasOutOfStockVariants(id)))

\* C18 (amended): a candidate is kept exactly if it satisfies every supplied
\* filter: vendor and productType by case-insensitive substring; minPrice
\* against the single price if the record has one other than 0, else the
\* range max; maxPrice against the single price if it has one other than 0,
\* else the range min; inStock = true requiring totalInventory > 0 and no
\* out-of-stock variants. An absent filter and inStock = false remove
\* nothing, and the kept candidates stay in their order.
C18_Conjunction ==
  FilterOnly =>
    LET f == call.filters IN
    answer.products = SelectSeq(Found, LAMBDA id :
      /\ Supplied(f.vendor) => Contains(VendorOf(id), f.vendor.v)
      /\ Supplied(f.productType) => Contains(TypeOf(id), f.productType.v)
      /\ Supplied(f.minPrice) =>
           NonZeroPriceOr(id, RangeOf(id).max) >= f.minPrice.v
      /\ Supplied(f.maxPrice) =>
           NonZeroPriceOr(id, RangeOf(id).min) <= f.maxPrice.v
      /\ (Supplied(f.inStock) /\ f.inStock.v) =>
           (InventoryOf(id) > 0 /\ ~HasOutOfStockVariants(id)))

\* minPrice 2 and inStock together keep product 2 and drop product 3, which
\* passes the price filter but has out-of-stock variants
C18_Witness ==
  /\ FilterOnly
  /\ call.products = <<3, 2>>
  /\ call.filters.minPrice = Some(2) /\ call.filters.inStock = Some(TRUE)
  /\ ~call.filters.vendor.has /\ ~call.filters.maxPrice.has
  /\ answer.products = <<2>>

\* a record has a price: a single price other than 0, or a positive range
\* bound
HasAPrice(id) ==
  \/ HasPrice(id) /\ PriceOf(id) # 0
  \/ RangeOf(id).min > 0
  \/ RangeOf(id).max > 0
PriceSorted ==
  answer.done /\ call.sortBy \in {"price-asc", "price-desc"}
              /\ call.page = 1 /\ call.limit = DefaultLimit

\* C19 (as claimed): under price-asc and price-desc no record without any
\* price information comes before a record that has a price.
C19_Original ==
  PriceSorted =>
    \A i, j \in 1..Len(answer.products) :
      (i < j) =>
        ~(~HasAPrice(answer.products[i]) /\ HasAPrice(answer.products[j]))

\* C20 (as claimed): the records that have a price come in non-decreasing
\* order of single price, else range min, under price-asc, and in
\* non-increasing order of single price, else range max, under price-desc;
\* the sorted list is a permutation of the filtered candidates.
C20_Original ==
  PriceSorted =>
    LET out == answer.products
        given == applyFilters(Found, call.filters)
    IN /\ Len(out) = Len(given)
       /\ {out[i] : i \in 1..Len(out)} = {given[i] : i \in 1..Len(given)}
       /\ \A i, j \in 1..Len(out) :
            (i < j /\ HasAPrice(out[i]) /\ HasAPrice(out[j])) =>
              IF call.sortBy = "price-asc"
                THEN NonZeroPriceOr(out[i], RangeOf(out[i]).min)
                       <= NonZeroPriceOr(out[j], RangeOf(out[j]).min)
                ELSE NonZeroPriceOr(out[i], RangeOf(out[i]).max)
                       >= NonZeroPriceOr(out[j], RangeOf(out[j]).max)

\* the position of a record in the collection searched
PositionIn(ps, id) == CHOOSE i \in 1..Len(ps) : ps[i] = id

\* C21: for an empty or whitespace-only query the candidates are the whole
\* collection, and under relevance the filtered results keep the order of
\* the collection: without filters the result is the collection itself.
C21_BlankQuery ==
  (/\ answer.done /\ call.sortBy = "relevance"
   /\ call.page = 1 /\ call.limit = DefaultLimit
   /\ \A i \in 1..Len(call.query) : call.query[i] = " ") =>
    LET out == answer.products IN
    /\ call.filters = NoFilters =>
         (out = call.products /\ answer.total = Len(call.products))
    /\ \A i \in 1..Len(out) : \E k \in 1..Len(call.products) :
         call.products[k] = out[i]
    /\ \A i, j \in 1..Len(out) :
         i < j => PositionIn(call.products, out[i])
                    < PositionIn(call.products, out[j])
    /\ answer.total = Len(applyFilters(call.products, call.filters))

\* a whitespace-only query returned all three products in their order, none
\* of which holds two blanks
C21_Witness ==
  /\ answer.done /\ call.query = <<" ", " ">> /\ call.filters = NoFilters
  /\ call.products = <<3, 1, 2>> /\ answer.products = <<3, 1, 2>>

\* the members of s, each at its first occurrence
FirstOccurrences(s) ==
  LET F[i \in 0..Len(s)] ==
        IF i = 0 THEN <<>>
        ELSE IF \E j \in 1..(i - 1) : s[j] = s[i] THEN F[i - 1]
        ELSE Append(F[i - 1], s[i])
  IN F[Len(s)]
\* the values that contain the query, whatever the case of either
MatchingValues ==
  LET hit(v) == Contains(v, call.query) IN
  SelectSeq(Titles(call.products), hit)
    \o SelectSeq(VendorsOf(call.products), hit)
    \o SelectSeq(Types(call.products), hit)
Expected ==
  LET d == FirstOccurrences(MatchingValues)
  IN SubSeq(d, 1, Smaller(call.limit, Len(d)))
Whitespace(q) == \A i \in 1..Len(q) : q[i] = " "

\* C22 (as claimed): for a query of two or more characters the suggestions
\* are the first limit members of the duplicate-free sequence of matching
\* titles, then vendors, then product types; for a shorter query, none.
C22_Original ==
  answer.suggested =>
    answer.suggestions = IF Len(call.query) >= 2 THEN Expected ELSE <<>>

\* C22 (amended): for a query of two or more characters that is not made of
\* whitespace only, the suggestions are the first limit members of the
\* duplicate-free sequence of matching titles in collection order, then
\* matching vendors, then matching product types, a value matching exactly
\* if its lowercase form contains the lowercase query; a query shorter than
\* two characters or made of whitespace only has no suggestions.
C22_Suggestions ==
  answer.suggested =>
    answer.suggestions =
      IF Len(call.query) >= 2 /\ ~Whitespace(call.query) THEN Expected
      ELSE <<>>

\* "AP" matches the titles of products 2 and 1, the vendor of product 1 (the
\* same text as its title) and the type both share: two distinct
\* suggestions, cut to one
C22_Witness ==
  /\ answer.suggested /\ call.query = <<"A", "P">> /\ call.limit = 1
  /\ call.products = <<2, 1>>
  /\ answer.suggestions = <<<<"a", "p", "x">>>>

\* C23 (as claimed): every invocation of generate-index that finishes
\* successfully has run the ingestion pipeline during that invocation.
C23_Original ==
  \A p \in Procs :
    (proc[p].entry = "generate" /\ proc[p].pc = "done") => proc[p].ran

\* C24 (as claimed): when generate-index has run the pipeline and completed
\* successfully, data/search-index.json exists and holds the products of
\* that run, in the deployment build environment too.
C24_Original ==
  \A p \in Procs :
    (/\ proc[p].entry = "generate" /\ proc[p].pc = "done"
     /\ proc[p].ran /\ proc[p].err = "none") =>
      /\ fs.canonical.kind = "object"
      /\ fs.canonical.products = proc[p].products

\* a persist run of p that has ended without an error
Persisted(p) ==
  /\ proc[p].saving /\ proc[p].pc \in {"done", "load_read"}
  /\ proc[p].thrown = "none" /\ proc[p].err = "none"

RECURSIVE Flatten(_)
Flatten(bs) == IF bs = <<>> THEN <<>> ELSE Head(bs) \o Flatten(Tail(bs))

\* C26: a run yields at most one batch per row read; every batch holds
\* between one and chunkSize records; the batches yielded so far, followed
\* by the chunk being filled, are the accepted rows in source order; and once
\* the stream is consumed the collection that is persisted and returned is
\* that same sequence.
C26_Batches ==
  /\ Len(pipe.batches) <= pipe.rowsRead
  /\ \A i \in DOMAIN pipe.batches :
       Len(pipe.batches[i]) \in 1..ChunkSize
  /\ pipe.pc = "reading" => Flatten(pipe.batches) \o pipe.chunk = pipe.accepted
  /\ pipe.pc = "yielded" =>
       /\ pipe.chunk = pipe.batches[Len(pipe.batches)]
       /\ pipe.products \o pipe.chunk = pipe.accepted
  /\ pipe.pc \in {"joined", "persist", "returned"} =>
       /\ Flatten(pipe.batches) = pipe.accepted
       /\ pipe.products = pipe.accepted

\* a run returned three products that came as a full batch and a last batch
\* of one
C26_Witness ==
  /\ pipe.pc = "returned" /\ pipe.written
  /\ Len(pipe.batches) = 2
  /\ Len(pipe.batches[1]) = ChunkSize /\ Len(pipe.batches[2]) = 1
  /\ pipe.products = pipe.accepted

\* C27 (as claimed): in writable mode, when ensureSearchIndex ran a rebuild
\* and returned, the records it returned are the records that rebuild
\* produced, whatever indexPath the processor was configured with.
C27_Original ==
  \A p \in Procs :
    (proc[p].entry = "resolve" /\ proc[p].regen /\ proc[p].pc = "done"
       /\ ~Production) =>
      proc[p].loaded = proc[p].products

\* C28 (as claimed): in the search route, once initializeSearchEngine has
\* succeeded no later step replaces the cached engine and no later call
\* invokes the resolver; a call whose initialization fails caches nothing and
\* hands its error to the caller; and a call that finds no engine cached
\* invokes the resolver.
C28_Original ==
  [][/\ (isInitialized /\ searchEngine.live) =>
          /\ searchEngine' = searchEngine /\ isInitialized'
          /\ modules'.resolved["request"] = modules.resolved["request"]
     /\ \A p \in Procs :
          /\ (proc[p].entry = "request" /\ proc[p].pc # "raised"
                /\ proc'[p].pc = "raised") =>
               /\ searchEngine' = searchEngine
               /\ isInitialized' = isInitialized
               /\ proc'[p].err # "none"
          /\ (proc[p].pc = "idle" /\ proc'[p].entry = "request"
                /\ ~(isInitialized /\ searchEngine.live)) =>
               modules'.resolved["request"] = modules.resolved["request"] + 1
    ]_vars

Count(s, x) == Cardinality({i \in DOMAIN s : s[i] = x})

\* C29: for the collection, query and filters of a search, total is the
\* number of filtered candidates whatever page, limit and sortBy are, and
\* for every limit >= 1 and every sortBy the items of pages 1..totalPages,
\* one page after another, hold every filtered candidate exactly once.
C29_Pagination ==
  (call.op = "search" /\ answer.done) =>
    LET e == NewEngine(call.products)
        kept == applyFilters(Found, call.filters)
        Page(k, lim, by) ==
          searchWith(e, call.query, call.filters, k, lim, by)
    IN
    /\ answer.total = Len(kept)
    /\ answer.products = Page(call.page, call.limit, call.sortBy).products
    /\ \A pg \in Pages : Page(pg, call.limit, call.sortBy).total = Len(kept)
    /\ \A lim \in Limits : Page(call.page, lim, call.sortBy).total = Len(kept)
    /\ \A by \in SortBys : Page(call.page, call.limit, by).total = Len(kept)
    /\ \A lim \in Limits \cup {call.limit}, by \in SortBys :
         LET all == Flatten([k \in 1..Page(1, lim, by).totalPages |->
                               Page(k, lim, by).products])
         IN /\ Len(all) = Len(kept)
            /\ \A id \in CatalogIds : Count(all, id) = Count(kept, id)

\* the second and last page of three records, two to a page
C29_Witness ==
  /\ call.op = "search" /\ answer.done
  /\ call.page = 2 /\ call.limit = 2 /\ Len(call.products) = 3
  /\ answer.total = 3 /\ answer.totalPages = 2
  /\ answer.products = <<call.products[3]>>

\* C30: a search, with any sortBy, a suggest or an aggregate read leaves
\* the engine's collection and match structure as they were, whatever calls
\* came before, and an empty-query relevance search without filters returns
\* the collection in its own order.
C30_Frame ==
  [][lastRead' # lastRead =>
       /\ searchEngine'.products = searchEngine.products
       /\ searchEngine'.fuse = searchEngine.fuse
       /\ (/\ lastRead'.op = "search" /\ IsBlank(lastRead'.query)
           /\ lastRead'.sortBy = "relevance" /\ ~lastRead'.filtered) =>
            lastRead'.items = slice(searchEngine.products, 0, DefaultLimit)
    ]_vars

\* a search sorted by ascending price returned product 3 before product 1 and
\* the collection still holds 1 before 3
C30_Witness ==
  /\ lastRead.op = "search" /\ lastRead.sortBy = "price-asc"
  /\ lastRead.query = <<>> /\ ~lastRead.filtered
  /\ lastRead.items = <<3, 1>>
  /\ searchEngine.products = <<1, 3>>

====
